---- MODULE Spec2Model ----
(***************************************************************************)
(* The protocol gateway of mcp-server/index.mjs (server v2.2): the auth    *)
(* resolver with its credential cache, the live session map with the      *)
(* close handlers and the heartbeat of every stream, the POST message     *)
(* path, and the tool handlers with the data-layer and upstream calls     *)
(* they make.                                                              *)
(*                                                                         *)
(* One action is one run of the event loop between two suspension points  *)
(* that wait for I/O: an await that waits only for already-settled        *)
(* promises does not let an I/O event in, so the code on both sides of it *)
(* is one action.                                                          *)
(***************************************************************************)
EXTENDS Integers, Sequences, FiniteSets, TLC

\* ------------------------------------------------------------------ bounds
MaxConns == 2      \* stream requests (GET /sse, GET /mcp) in one behaviour
MaxInv == 1        \* POSTs on the message path in one behaviour
MaxTime == 1       \* steps of the clock in one behaviour

ClockStepMs == 60000   \* what one step of the clock adds to Date.now()

MaxChunks == 3     \* grounding chunks in one answer of the upstream
HistPrefill == 19  \* streams opened and closed before a behaviour of SpecHistory
MaxListings == 2   \* tools/list requests in a behaviour of SpecList
AdminConns == 1    \* stream requests in a behaviour of SpecAdmin and of SpecSeq
SeqInvs == 2       \* POSTs on the message path in a behaviour of SpecSeq

\* ---------------------------------------------------------------- constants
AUTH_CACHE_TTL_MS == 60000
SETTINGS_CACHE_TTL_MS == 30000
MAX_SESSION_HISTORY == 20

\* ------------------------------------------------------------------- values
Null == "null"
\* "C" is a fresh tenant: a key, no store, no document.
Tenants == {"A", "B", "C"}

\* Credentials are strings of characters.
NoToken == << >>
KeyA == <<"s", "k", "-", "a">>
KeyB == <<"s", "k", "-", "b">>
KeyC == <<"s", "k", "-", "c">>
Jwt == <<"e", "y", "J", "h">>
Tokens == {NoToken, KeyA, KeyB, Jwt}

\* The rows of the table mcp_api_keys: key_value -> user_id.
KeyRows == {KeyA, KeyB, KeyC}
KeyOwner(k) == IF k = KeyA THEN "A" ELSE IF k = KeyB THEN "B" ELSE "C"

\* The table stores in the order of the data layer's query (created_at desc).
StoresTable ==
    <<[id |-> <<"s", "4">>, user_id |-> "A", display_name |-> <<"A", "l", "p">>],
      [id |-> <<"s", "3">>, user_id |-> "B", display_name |-> <<"z">>],
      [id |-> <<"s", "2">>, user_id |-> "B", display_name |-> <<"a", "l", "b">>],
      [id |-> <<"s", "1">>, user_id |-> "A", display_name |-> <<"A", "l">>]>>

\* The table documents in the order of the data layer's query (uploaded_at desc).
DocsTable ==
    <<[id |-> <<"d", "1">>, user_id |-> "A", store_id |-> <<"s", "1">>]>>

\* Argument values that are no string of characters: the absent field and a
\* JSON number.
Undefined == <<"undefined">>
NotAString == <<"number">>

\* The arguments of a tools/call request (the fields that are modelled).
NoArgs == [message |-> Undefined, storeId |-> Undefined, documentId |-> Undefined]
ChatArgs(storeId) == [message |-> <<"h", "i">>, storeId |-> storeId, documentId |-> Undefined]

\* What a caller may give as storeId; << >> is the omitted or empty argument.
StoreArgs == {<< >>, <<"s", "1">>, <<"A", "l">>, <<"q">>}

\* What the web application may store as a tenant's active_store_id.
StorePointers == {<< >>, <<"s", "1">>}

Tools == {"chat", "chat_with_store", "chat_all_stores", "summarize"}

\* The names in the registry.
AllTools ==
    {"chat", "chat_with_store", "chat_all_stores", "list_stores", "get_active_store",
     "set_active_store", "list_documents", "summarize", "delete_document",
     "get_document_link", "help"}

ConnIds == 1..MaxConns
InvIds == 1..MaxInv

\* --------------------------------------------------------------- JS helpers
StartsWith(s, p) == Len(s) >= Len(p) /\ SubSeq(s, 1, Len(p)) = p

MapSet(m, k, v) == [x \in DOMAIN m \cup {k} |-> IF x = k THEN v ELSE m[x]]
MapDelete(m, k) == [x \in DOMAIN m \ {k} |-> m[x]]
MapHas(m, k) == k \in DOMAIN m
EmptyMap == [x \in {} |-> Null]

Lower(ch) == CASE ch = "A" -> "a" [] ch = "L" -> "l" [] ch = "B" -> "b" [] OTHER -> ch
toLowerCase(s) == [i \in 1..Len(s) |-> Lower(s[i])]
includes(s, q) == \E i \in 0..(Len(s) - Len(q)) : SubSeq(s, i + 1, i + Len(q)) = q

\* encodeURIComponent: the unreserved characters stay, any other becomes %XX.
Unreserved == {"s", "k", "-", "a", "b", "c", "x", "e", "y", "J", "h"}
RECURSIVE EncodeURIComponent(_)
EncodeURIComponent(s) ==
    IF s = << >> THEN << >>
    ELSE (IF Head(s) \in Unreserved THEN <<Head(s)>> ELSE <<"%", Head(s)>>)
         \o EncodeURIComponent(Tail(s))

\* -------------------------------------------------------------------- state
VARIABLES
    configured,      \* SUPABASE_URL and SUPABASE_ANON are both set
    now,             \* Date.now()
    keyActive,       \* backend: is_active of every row of mcp_api_keys
    authCache,       \* token -> [userId, expiresAt]
    conn,            \* every stream request and its response object
    nextSid,         \* the next transport.sessionId
    sessions,        \* sessionId -> [conn, userId, token, establishedAt]
    sessionHistory,  \* newest first
    userSettings,    \* backend: active_store_id of every tenant's settings row
    settingsCache,   \* userId -> [data, expiresAt]
    inv,             \* every POST on the message path and the tool call it carries
    mcpLogs,         \* the messages the activity log holds
    probe,           \* a request to the status or to the log-clear endpoint
    cachedToolSchemas, \* _cachedToolSchemas
    listings,        \* what the tools/list requests so far were answered
    docsDeletedAt,   \* backend: the documents whose row has deleted_at set
    keyTouches,      \* the updates of last_used_at that are under way
    keyLastUsed      \* backend: last_used_at of every row of mcp_api_keys

sessionVars == <<conn, nextSid, sessions, sessionHistory>>
authVars == <<configured, now, keyActive, authCache>>
toolVars == <<userSettings, settingsCache, inv>>
statusVars == <<mcpLogs, probe>>
registryVars == <<cachedToolSchemas, listings>>
dataVars == <<docsDeletedAt, keyTouches, keyLastUsed>>
vars == <<authVars, sessionVars, toolVars, statusVars, registryVars, dataVars>>

\* ------------------------------------------------------------- activity log
\* What mcpLogs holds of an entry is its message: the kind of the message and
\* the session identifier and the user it names. The order of the entries,
\* their ids and their times are left out; no behaviour here logs as many
\* entries as the log keeps, so none is shifted out.
LogEntry(msg, sid, userId) ==
    [msg |-> msg, sid |-> sid, userId |-> userId, query |-> NoToken]

\* A message that holds req.url: query is the value of the token parameter of
\* the url's query string, NoToken when the url has none.
UrlEntry(msg, query) == [msg |-> msg, sid |-> 0, userId |-> Null, query |-> query]

addMcpLog(log, entries) == log \cup entries

\* What app.listen logs.
StartupLogs == {LogEntry("started", 0, Null)}


NotResolved == [pending |-> TRUE, userId |-> Null, valid |-> FALSE]

UnusedConn == [stage |-> "unused", token |-> NoToken, resolved |-> NotResolved,
               userId |-> Null, sid |-> 0, cached |-> "none", closedIn |-> "open",
               ended |-> FALSE,
               timer |-> FALSE, dropped |-> FALSE, query |-> NoToken]

NoSettings == [row |-> FALSE, active_store_id |-> << >>]

NoBody == [sessions |-> {}, history |-> << >>, logs |-> {}]

UnusedProbe == [stage |-> "unused", path |-> "none", token |-> NoToken,
                resolved |-> NotResolved, status |-> "none", body |-> NoBody,
                before |-> {}, query |-> NoToken]

UnusedInv == [stage |-> "unused", sid |-> 0, tool |-> "none", args |-> NoArgs,
              userId |-> Null, pc |-> 0, ident |-> << >>, handles |-> << >>,
              dataUsers |-> {}, upstream |-> FALSE, result |-> "none",
              ops |-> {}, error |-> << >>, found |-> << >>, report |-> << >>,
              wrote |-> FALSE, failed |-> FALSE, prior |-> {}, calls |-> << >>,
              gstatus |-> "none", chunks |-> << >>, sources |-> << >>,
              delivered |-> 0, held |-> [set |-> FALSE, active_store_id |-> << >>],
              docs |-> << >>]

\* _cachedToolSchemas = null.
NotCached == [built |-> FALSE, list |-> << >>]

Init ==
    /\ configured \in BOOLEAN
    /\ now = 0
    /\ keyActive = [k \in KeyRows |-> TRUE]
    /\ authCache = EmptyMap
    /\ conn = [c \in ConnIds |-> UnusedConn]
    /\ nextSid = 1
    /\ sessions = EmptyMap
    /\ sessionHistory = << >>
    /\ userSettings = [t \in Tenants |-> << >>]
    /\ settingsCache = EmptyMap
    /\ inv = [i \in InvIds |-> UnusedInv]
    /\ mcpLogs = StartupLogs
    /\ probe = UnusedProbe
    /\ cachedToolSchemas = NotCached
    /\ listings = << >>
    /\ docsDeletedAt = {}
    /\ keyTouches = {}
    /\ keyLastUsed = [k \in KeyRows |-> << >>]

\* --------------------------------------------------------------- data layer
\* sbFetch("mcp_api_keys", key_value = eq.<encoded token>, is_active = eq.true,
\* limit 1).
\* A failed request makes sbFetch return null: ok = FALSE.
KeyLookup(token, fetchOk) ==
    IF ~fetchOk THEN [ok |-> FALSE, rows |-> << >>]
    ELSE [ok |-> TRUE,
          rows |-> IF \E k \in KeyRows : k = EncodeURIComponent(token) /\ keyActive[k]
                   THEN <<[user_id |-> KeyOwner(EncodeURIComponent(token))]>>
                   ELSE << >>]

NoRows(r) == ~r.ok \/ Len(r.rows) = 0

\* ------------------------------------------------------------ auth resolver
\* A cache that serves an entry whatever its expiresAt.
CacheHitNoExpiry(token) == MapHas(authCache, token)

CacheHit(token) ==
    MapHas(authCache, token) /\ authCache[token].expiresAt > now

\* What resolveUser holds in its local `cached` while it awaits the lookup.
CachedLocal(token) ==
    IF token = NoToken \/ ~configured \/ ~MapHas(authCache, token) THEN "none"
    ELSE IF CacheHit(token) THEN "fresh"
    ELSE "expired"

\* A resolveUser that never looks into the cache.
ResolveSyncNoCache(token) ==
    IF token = NoToken THEN [pending |-> FALSE, userId |-> Null, valid |-> FALSE]
    ELSE IF ~configured THEN [pending |-> FALSE, userId |-> Null, valid |-> TRUE]
    ELSE IF StartsWith(token, <<"e", "y", "J">>)
         THEN [pending |-> FALSE, userId |-> Null, valid |-> FALSE]
    ELSE [pending |-> TRUE, userId |-> Null, valid |-> FALSE]

\* resolveUser up to its await of the backend lookup: the result, or pending.
ResolveSync(token) ==
    IF token = NoToken THEN [pending |-> FALSE, userId |-> Null, valid |-> FALSE]
    ELSE IF ~configured THEN [pending |-> FALSE, userId |-> Null, valid |-> TRUE]
    ELSE IF CacheHit(token)
         THEN [pending |-> FALSE, userId |-> authCache[token].userId, valid |-> TRUE]
    ELSE IF StartsWith(token, <<"e", "y", "J">>)
         THEN [pending |-> FALSE, userId |-> Null, valid |-> FALSE]
    ELSE [pending |-> TRUE, userId |-> Null, valid |-> FALSE]

\* resolveUser after the lookup returned rows.
ResolveRows(r) ==
    IF NoRows(r)
    THEN [pending |-> FALSE, userId |-> Null, valid |-> FALSE]
    ELSE [pending |-> FALSE, userId |-> r.rows[1].user_id, valid |-> TRUE]

CacheAfterRows(token, r) ==
    IF NoRows(r) THEN authCache
    ELSE MapSet(authCache, token,
                [userId |-> r.rows[1].user_id, expiresAt |-> now + AUTH_CACHE_TTL_MS])

\* resolveUser after a lookup that returned a row: sbPatch of last_used_at is
\* called and not awaited. by is the stream request that resolved, 0 for a
\* request to the status or the log-clear endpoint.
TouchesAfterRows(by, token, r) ==
    IF NoRows(r) THEN keyTouches
    ELSE keyTouches \cup {[key |-> EncodeURIComponent(token), at |-> now, by |-> by]}

\* A resolveUser to which a failure of the update is raised.
TouchRaisedOnFailure(outcome) == outcome # "ok"

\* sbPatch(...).catch(() => { }): whether an outcome of the update is raised
\* to the request that launched it. sbPatch catches what fetch throws, and
\* the catch on its promise takes the rest.
TouchRaised(outcome) == FALSE

\* What the update of last_used_at may end with: the backend took it, the
\* backend answered with a non-success status, the request threw.
TouchOutcomes == {"ok", "refused", "threw"}

\* ---------------------------------------------------------- session manager
SessionEntry(c, userId, token) ==
    [conn |-> c, userId |-> userId, token |-> token, establishedAt |-> now]

\* An auth that lets every request with a token through.
AuthDecisionOpen(token, res) ==
    IF token = NoToken THEN "r401" ELSE "next"

\* auth: 401 without a token (resolveUser is not called), 403 when the key
\* does not resolve as valid, else next().
AuthDecision(token, res) ==
    IF token = NoToken THEN "r401"
    ELSE IF ~res.valid THEN "r403"
    ELSE "next"

\* A transport that hands out the first identifier again.
ReusedSessionId == IF nextSid > 1 THEN 1 ELSE nextSid

\* transport.sessionId of a new transport: an identifier never issued before.
NewSessionId == nextSid

\* handleSse: the session is put into the map, then the transport is connected.
\* connectOk = FALSE is sessionServer.connect(transport) throwing: the catch
\* block answers 500, and neither the heartbeat nor a close handler exists.
HandleSse(c, token, query, res, connectOk, logged) ==
    /\ mcpLogs' = addMcpLog(logged,
           {LogEntry("Handshake", 0, res.userId),
            IF connectOk THEN LogEntry("Session established", NewSessionId, res.userId)
            ELSE LogEntry("SSE Error", 0, Null)})
    /\ sessions' = MapSet(sessions, NewSessionId, SessionEntry(c, res.userId, token))
    /\ nextSid' = nextSid + 1
    /\ conn' = [conn EXCEPT ![c] =
            [@ EXCEPT !.stage = IF connectOk THEN "established" ELSE "failed",
                      !.token = token,
                      !.query = query,
                      !.cached = IF conn[c].stage = "unused" THEN CachedLocal(token) ELSE @,
                      !.resolved = res,
                      !.userId = res.userId,
                      !.sid = NewSessionId,
                      !.timer = connectOk,
                      !.ended = ~connectOk]]

\* The rest of the GET once resolveUser has returned res: auth, then handleSse.
AfterResolve(c, token, query, res, logged) ==
    IF AuthDecision(token, res) = "next"
    THEN \E connectOk \in BOOLEAN : HandleSse(c, token, query, res, connectOk, logged)
    ELSE /\ mcpLogs' = addMcpLog(logged, {UrlEntry(AuthDecision(token, res), query)})
         /\ conn' = [conn EXCEPT ![c] =
                [@ EXCEPT !.stage = AuthDecision(token, res),
                          !.token = token,
                          !.query = query,
                          !.cached = IF conn[c].stage = "unused" THEN CachedLocal(token) ELSE @,
                          !.resolved = res]]
         /\ UNCHANGED <<sessions, nextSid>>

\* The value of the token parameter of req.url, for a request that carries
\* its credential there and not in the Authorization header.
UrlQuery(token, inQuery) == IF inQuery THEN token ELSE NoToken

\* GET /sse or GET /mcp arrives with its token in the Authorization header or,
\* with no such header, in the token parameter of the query string; the
\* request logger logs method and url first.
GetStreamVia(c, token, inQuery) ==
    /\ conn[c].stage = "unused"
    /\ \A d \in ConnIds : d < c => conn[d].stage # "unused"
    /\ IF ResolveSync(token).pending
       THEN /\ conn' = [conn EXCEPT ![c] =
                   [@ EXCEPT !.stage = "resolving", !.token = token,
                             !.query = UrlQuery(token, inQuery),
                             !.cached = CachedLocal(token)]]
            /\ mcpLogs' = addMcpLog(mcpLogs, {UrlEntry("GET /sse", UrlQuery(token, inQuery))})
            /\ UNCHANGED <<sessions, nextSid>>
       ELSE /\ AfterResolve(c, token, UrlQuery(token, inQuery), ResolveSync(token),
                            addMcpLog(mcpLogs,
                                      {UrlEntry("GET /sse", UrlQuery(token, inQuery))}))
    /\ UNCHANGED <<configured, now, keyActive, authCache, sessionHistory, toolVars, probe, registryVars, dataVars>>

\* The stream request of a client that sends the Authorization header.
GetStream(c, token) == GetStreamVia(c, token, FALSE)

\* The key lookup of a stream request returns: resolveUser fills the cache and
\* returns, auth decides, handleSse runs (also on a connection that closed
\* while the lookup was under way: nothing in auth or handleSse looks at it).
AuthReturn(c, fetchOk) ==
    /\ conn[c].stage = "resolving"
    /\ LET rows == KeyLookup(conn[c].token, fetchOk)
       IN  /\ authCache' = CacheAfterRows(conn[c].token, rows)
           /\ keyTouches' = TouchesAfterRows(c, conn[c].token, rows)
           /\ AfterResolve(c, conn[c].token, conn[c].query, ResolveRows(rows),
                           IF fetchOk THEN mcpLogs
                           ELSE addMcpLog(mcpLogs, {LogEntry("sbFetch error", 0, Null)}))
    /\ UNCHANGED <<configured, now, keyActive, sessionHistory, toolVars, probe, registryVars, docsDeletedAt, keyLastUsed>>

\* A pop that takes the record at the head.
PopNewest(h) == IF Len(h) > MAX_SESSION_HISTORY THEN Tail(h) ELSE h

\* sessionHistory.unshift and the pop that follows it.
Unshift(h, sid, session) ==
    <<[sessionId |-> sid, userId |-> session.userId,
       established |-> session.establishedAt, closedAt |-> now]>> \o h

Pop(h) == IF Len(h) > MAX_SESSION_HISTORY THEN SubSeq(h, 1, Len(h) - 1) ELSE h

\* An onclose that writes its history record without looking for the session.
TransportOnCloseNoGuard(st, sid) ==
    [sessions |-> MapDelete(st.sessions, sid),
     logs |-> addMcpLog(st.logs, {LogEntry("Session closed", sid, Null)}),
     history |-> Pop(Unshift(st.history, sid,
                    IF MapHas(st.sessions, sid) THEN st.sessions[sid]
                    ELSE [userId |-> Null, establishedAt |-> 0])),
     timer |-> FALSE]

\* transport.onclose of the session sid, on the state st = [sessions, history, timer].
TransportOnClose(st, sid) ==
    [sessions |-> MapDelete(st.sessions, sid),
     logs |-> addMcpLog(st.logs, {LogEntry("Session closed", sid, Null)}),
     history |-> IF MapHas(st.sessions, sid)
                 THEN Pop(Unshift(st.history, sid, st.sessions[sid]))
                 ELSE st.history,
     timer |-> FALSE]

\* The handler of res.on("close").
ResOnClose(st, sid) ==
    IF MapHas(st.sessions, sid)
    THEN [sessions |-> MapDelete(st.sessions, sid), history |-> st.history,
          logs |-> addMcpLog(st.logs, {LogEntry("Session force-closed", sid, Null)}),
          timer |-> FALSE]
    ELSE st

\* The response of c has emitted close; closedIn is the stage it was in then.
Closed(c) == conn[c].closedIn # "open"

CloseState(c) ==
    [sessions |-> sessions, history |-> sessionHistory, logs |-> mcpLogs,
     timer |-> conn[c].timer]

\* The underlying connection of a stream closes: the response emits close once.
\* On an established stream both listeners run: the one the transport put on
\* the response when it started, which calls transport.onclose, and the one of
\* handleSse. In which order the runtime calls them is the transport library's
\* business, so both orders are possible.
ConnClose(c) ==
    /\ conn[c].stage \notin {"unused"}
    /\ ~Closed(c)
    /\ IF conn[c].stage = "established"
       THEN \E transportFirst \in BOOLEAN :
            LET st == IF transportFirst
                      THEN ResOnClose(TransportOnClose(CloseState(c), conn[c].sid), conn[c].sid)
                      ELSE TransportOnClose(ResOnClose(CloseState(c), conn[c].sid), conn[c].sid)
            IN  /\ sessions' = st.sessions
                /\ sessionHistory' = st.history
                /\ mcpLogs' = st.logs
                /\ conn' = [conn EXCEPT ![c] =
                       [@ EXCEPT !.closedIn = conn[c].stage, !.timer = st.timer]]
       ELSE /\ conn' = [conn EXCEPT ![c].closedIn = conn[c].stage]
            /\ UNCHANGED <<sessions, sessionHistory, mcpLogs>>
    /\ UNCHANGED <<authVars, nextSid, toolVars, probe, registryVars, dataVars>>

\* One tick of the heartbeat interval of a stream. A write to a response whose
\* connection is gone is dropped by the runtime without an error.
Heartbeat(c) ==
    /\ conn[c].timer
    /\ conn' = [conn EXCEPT ![c] =
            IF conn[c].ended THEN [@ EXCEPT !.timer = FALSE]
            ELSE IF Closed(c) THEN [@ EXCEPT !.dropped = TRUE]
            ELSE @]
    /\ UNCHANGED <<authVars, nextSid, sessions, sessionHistory, toolVars, statusVars, registryVars, dataVars>>

\* -------------------------------------------------------- tenant data layer
\* A stores query without the user_id filter.
getStoresOfAll(userId, fetchOk) ==
    IF ~fetchOk THEN << >>
    ELSE [i \in 1..Len(StoresTable) |->
             [id |-> StoresTable[i].id, displayName |-> StoresTable[i].display_name]]

\* getStoresByUser: the rows of the tenant, [] when the request fails.
getStoresByUser(userId, fetchOk) ==
    IF ~fetchOk THEN << >>
    ELSE LET rows == SelectSeq(StoresTable, LAMBDA r : r.user_id = userId)
         IN  [i \in 1..Len(rows) |->
                 [id |-> rows[i].id,
                  displayName |-> IF rows[i].display_name = << >> THEN rows[i].id
                                  ELSE rows[i].display_name]]

\* findStoreByUser on the stores that getStoresByUser returned.
StoreMatches(s, q) ==
    \/ toLowerCase(s.id) = q
    \/ toLowerCase(s.displayName) = q
    \/ includes(toLowerCase(s.displayName), q)

\* Array.prototype.find from index i on: the first store that matches, if any.
RECURSIVE FindFrom(_, _, _)
FindFrom(stores, q, i) ==
    IF i > Len(stores) THEN [found |-> FALSE, index |-> 0]
    ELSE IF StoreMatches(stores[i], q) THEN [found |-> TRUE, index |-> i]
    ELSE FindFrom(stores, q, i + 1)

findStoreByUser(stores, identifier) == FindFrom(stores, toLowerCase(identifier), 1)

\* getDocumentsByUser: the rows of the tenant, of one store when a storeId is
\* given, [] when the request fails. The query filters on user_id and on
\* store_id and on nothing else, so a row's deleted_at has no part in it.
getDocumentsByUser(userId, storeId, fetchOk) ==
    IF ~fetchOk THEN << >>
    ELSE SelectSeq(DocsTable,
             LAMBDA d : d.user_id = userId /\ (storeId = << >> \/ d.store_id = storeId))

toStoreName(id) ==
    IF StartsWith(id, <<"fileSearchStores/">>) THEN id
    ELSE <<"fileSearchStores/">> \o id

\* getUserSettings: the cached data while the entry is not expired.
SettingsHit(userId) ==
    MapHas(settingsCache, userId) /\ settingsCache[userId].expiresAt > now

SettingsRows(userId, fetchOk) ==
    IF fetchOk /\ userId \in Tenants
    THEN [row |-> TRUE, active_store_id |-> userSettings[userId]]
    ELSE NoSettings

\* ------------------------------------------------------- session resolution
\* A process-wide current user: the tenant of the session opened last.
resolveUserIdGlobal(sid) ==
    IF MapHas(sessions, nextSid - 1) THEN sessions[nextSid - 1].userId ELSE Null

\* A resolution that falls back to a default tenant.
resolveUserIdDefault(sid) ==
    IF sid # 0 /\ MapHas(sessions, sid) /\ sessions[sid].userId # Null
    THEN sessions[sid].userId ELSE "A"

\* resolveUserIdFromExtra: sessions.get(extra.sessionId)?.userId ?? null.
resolveUserIdFromExtra(sid) ==
    IF sid # 0 /\ MapHas(sessions, sid) THEN sessions[sid].userId ELSE Null

\* ------------------------------------------------------------ POST messages
\* A handlePost that hands every message on.
PostDecisionNoLookup(sessionId) == "dispatched"

\* A handlePost that accepts every identifier ever issued.
PostDecisionIssued(sessionId) ==
    IF sessionId = 0 THEN "r400missing"
    ELSE IF sessionId >= nextSid THEN "r400notfound"
    ELSE IF MapHas(sessions, sessionId)
            /\ conn[sessions[sessionId].conn].stage # "established" THEN "r500"
    ELSE "dispatched"

\* handlePost: 400 without sessionId, 400 when it is no live session, else the
\* message goes to the session's transport, which answers 500 when its stream
\* was never started.
PostDecision(sessionId) ==
    IF sessionId = 0 THEN "r400missing"
    ELSE IF ~MapHas(sessions, sessionId) THEN "r400notfound"
    ELSE IF conn[sessions[sessionId].conn].stage # "established" THEN "r500"
    ELSE "dispatched"

Post(i, sessionId, name, args) ==
    /\ inv[i].stage = "unused"
    /\ \A j \in DOMAIN inv : j < i => inv[j].stage # "unused"
    /\ inv' = [inv EXCEPT ![i] =
            IF PostDecision(sessionId) = "dispatched"
            THEN [@ EXCEPT !.stage = "dispatched", !.sid = sessionId,
                           !.tool = name, !.args = args,
                           !.prior = {j \in DOMAIN inv : inv[j].stage \in {"done", "error"}}]
            ELSE [@ EXCEPT !.stage = PostDecision(sessionId), !.sid = sessionId]]
    /\ mcpLogs' = addMcpLog(mcpLogs,
           {LogEntry("POST /sse", sessionId, Null)} \cup
           (IF PostDecision(sessionId) = "r400notfound"
            THEN {LogEntry("POST rejected", sessionId, Null)}
            ELSE IF PostDecision(sessionId) = "r500"
            THEN {LogEntry("POST error", sessionId, Null)}
            ELSE {}))
    /\ UNCHANGED <<authVars, sessionVars, userSettings, settingsCache, probe, registryVars, dataVars>>

\* ------------------------------------------------------- argument validation
\* The schema of every tool: its fields in the order of their declaration
\* (of the optional fields only storeId is kept).
Schema(tool) ==
    CASE tool = "chat" ->
            <<[path |-> "message", kind |-> "min1"], [path |-> "storeId", kind |-> "optional"]>>
      [] tool = "chat_with_store" ->
            <<[path |-> "message", kind |-> "min1"], [path |-> "storeId", kind |-> "string"]>>
      [] tool = "chat_all_stores" -> <<[path |-> "message", kind |-> "min1"]>>
      [] tool = "set_active_store" -> <<[path |-> "storeId", kind |-> "string"]>>
      [] tool \in {"list_documents", "summarize"} ->
            <<[path |-> "storeId", kind |-> "optional"]>>
      [] tool \in {"delete_document", "get_document_link"} ->
            <<[path |-> "documentId", kind |-> "string"],
              [path |-> "storeId", kind |-> "optional"]>>
      [] OTHER -> << >>

\* ------------------------------------------------------------ tool registry
\* The tools array after the module has loaded: one registerTool call per tool,
\* in this order. Nothing calls registerTool later.
ToolOrder ==
    <<"chat", "chat_with_store", "chat_all_stores", "list_stores",
      "get_active_store", "set_active_store", "list_documents", "summarize",
      "delete_document", "get_document_link", "help">>

\* The description a tool is registered with, told apart by the tool it is of.
Description(name) == <<"description", name>>

tools ==
    [k \in 1..Len(ToolOrder) |->
        [name |-> ToolOrder[k], description |-> Description(ToolOrder[k]),
         schema |-> Schema(ToolOrder[k])]]

\* tools.map(...) of getCachedToolSchemas: the JSON schema is made of the zod
\* schema field by field.
ToolSchemas(registry) ==
    [k \in 1..Len(registry) |->
        [name |-> registry[k].name, description |-> registry[k].description,
         inputSchema |-> registry[k].schema]]

\* A cache that hands out its list without the first entry once it is built.
getCachedToolSchemasShort(cache) ==
    IF cache.built THEN [cache EXCEPT !.list = Tail(@)]
    ELSE [built |-> TRUE, list |-> ToolSchemas(tools)]

\* getCachedToolSchemas: the value of _cachedToolSchemas after the call, whose
\* list is what the call returns.
getCachedToolSchemas(cache) ==
    IF cache.built THEN cache
    ELSE [built |-> TRUE, list |-> ToolSchemas(tools)]

\* What zod reports for one field, "none" when the value passes.
Issue(kind, v) ==
    IF v = Undefined THEN (IF kind = "optional" THEN "none" ELSE "Required")
    ELSE IF v = NotAString THEN "Expected string, received number"
    ELSE IF kind = "min1" /\ v = << >> THEN "String must contain at least 1 character(s)"
    ELSE "none"

AllIssues(tool, args) ==
    [k \in 1..Len(Schema(tool)) |->
        [path |-> Schema(tool)[k].path,
         message |-> Issue(Schema(tool)[k].kind, args[Schema(tool)[k].path])]]

\* A validation that stops at the first failing field.
ZodFirstIssue(tool, args) ==
    LET all == SelectSeq(AllIssues(tool, args), LAMBDA x : x.message # "none")
    IN  IF Len(all) = 0 THEN all ELSE <<all[1]>>

\* zodSchema.parse: e.errors holds one issue for every failing field, and the
\* message of the error thrown lists path and message of each of them.
ZodIssues(tool, args) ==
    SelectSeq(AllIssues(tool, args), LAMBDA x : x.message # "none")

\* What parse returns: the fields of the schema, any other key is stripped.
Parsed(tool, args) ==
    [f \in DOMAIN args |->
        IF \E k \in 1..Len(Schema(tool)) : Schema(tool)[k].path = f
        THEN args[f] ELSE Undefined]

\* ------------------------------------------------------------ tool handlers
\* The awaits of every handler, in order.
Plan(tool) ==
    CASE tool = "chat" -> <<"settings", "find", "rag">>
      [] tool = "summarize" -> <<"settings", "find", "rag">>
      [] tool = "chat_with_store" -> <<"find", "settings", "rag">>
      [] tool = "chat_all_stores" -> <<"stores", "settings", "rag">>
      [] tool = "list_stores" -> <<"stores", "settings">>
      [] tool = "get_active_store" -> <<"settings", "stores">>
      [] tool = "set_active_store" -> <<"find", "patch">>
      [] tool = "list_documents" -> <<"settings", "find", "docs">>
      [] tool = "delete_document" -> <<"settings", "docs", "gdelete", "docpatch">>
      [] tool = "get_document_link" -> <<"settings", "find", "docs">>
      [] tool = "help" -> << >>

\* A transport that writes to whatever response it was given.
SendToAny(sid) == sid

\* transport.send of the answer of a request of session sid: the session the
\* answer is written to, 0 when the stream of the session is gone and send
\* throws.
SendTo(sid) ==
    IF \E c \in ConnIds : conn[c].sid = sid /\ conn[c].stage = "established"
                            /\ conn[c].closedIn = "open"
    THEN sid ELSE 0

\* The handler returns: the protocol layer sends the result on the transport.
Done(r, result) ==
    [r EXCEPT !.stage = "done", !.result = result, !.delivered = SendTo(r.sid)]

\* A send that threw reaches s.onerror, which logs it.
Sent(log, r) ==
    IF r.stage \in {"done", "error"} /\ r.delivered = 0
    THEN addMcpLog(log, {LogEntry("Server error", r.sid, Null)})
    ELSE log

\* A resolution that prefers the active store to the argument.
ResolvedStoreIdActiveFirst(r, data) ==
    IF data.active_store_id # << >> THEN data.active_store_id
    ELSE IF r.args.storeId = Undefined THEN << >> ELSE r.args.storeId

\* storeId || settings?.active_store_id
ResolvedStoreId(r, data) ==
    IF r.args.storeId \notin {Undefined, << >>} THEN r.args.storeId
    ELSE data.active_store_id

\* A search that asks the upstream once for every store.
RagCallPerStore(storeNames) == [k \in 1..Len(storeNames) |-> <<storeNames[k]>>]

\* ragQuery: one generateContent call whose fileSearch tool carries all the
\* store names it was given.
RagCalls(storeNames) == <<storeNames>>

\* The handler reaches its k-th await: a settings read served by the cache
\* does not wait.
RECURSIVE EnterOp(_, _)
\* The handler goes on with the settings it read.
AfterSettings(r, data) ==
    IF r.tool \in {"chat", "summarize", "list_documents", "get_document_link",
                   "delete_document"}
    THEN IF ResolvedStoreId(r, data) = << >> THEN Done(r, "err:noactive")
         ELSE EnterOp([r EXCEPT !.ident = ResolvedStoreId(r, data)], r.pc + 1)
    ELSE IF r.tool = "get_active_store"
    THEN IF data.active_store_id = << >> THEN Done(r, "ok:noactive")
         ELSE EnterOp([r EXCEPT !.ident = data.active_store_id], r.pc + 1)
    ELSE IF r.tool = "list_stores" THEN Done(r, "ok")
    ELSE EnterOp(r, r.pc + 1)

EnterOp(r, k) ==
    LET op == Plan(r.tool)[k]
        r1 == [r EXCEPT !.pc = k]
    IN  IF op = "settings" /\ SettingsHit(r.userId)
        THEN AfterSettings(r1, settingsCache[r.userId].data)
        ELSE [r1 EXCEPT !.stage = op,
                        !.ops = @ \cup {op},
                        !.dataUsers = IF op \in {"rag", "gdelete"} THEN @
                                      ELSE @ \cup {r.userId},
                        !.upstream = @ \/ op = "rag",
                        !.calls = IF op = "rag" THEN @ \o RagCalls(r.handles) ELSE @]

\* stores.find(s => s.id === settings.active_store_id) of get_active_store.
RECURSIVE FindById(_, _, _)
FindById(stores, id, i) ==
    IF i > Len(stores) THEN [found |-> FALSE, index |-> 0]
    ELSE IF stores[i].id = id THEN [found |-> TRUE, index |-> i]
    ELSE FindById(stores, id, i + 1)

\* The handler goes on with the stores of its tenant.
AfterStores(r, stores) ==
    IF r.tool = "chat_all_stores"
    THEN IF Len(stores) = 0 THEN Done(r, "err:nostores")
         ELSE EnterOp([r EXCEPT !.handles = [i \in 1..Len(stores) |-> toStoreName(stores[i].id)]],
                      r.pc + 1)
    ELSE IF r.tool = "list_stores" THEN EnterOp(r, r.pc + 1)
    ELSE IF r.tool = "get_active_store"
    THEN LET store == FindById(stores, r.ident, 1)
         IN  Done([r EXCEPT !.report = IF store.found THEN stores[store.index].displayName
                                       ELSE r.ident],
                  "ok")
    ELSE LET store == findStoreByUser(stores, r.ident)
             r1 == [r EXCEPT !.handles = <<toStoreName(stores[store.index].id)>>,
                             !.found = stores[store.index].id,
                             !.report = stores[store.index].displayName]
         IN  IF ~store.found THEN Done(r, "err:notfound")
             ELSE EnterOp(r1, r.pc + 1)

\* The handler goes on with the documents it read.
AfterDocs(r, docs) ==
    IF r.tool = "list_documents" THEN Done(r, "ok")
    ELSE IF r.tool = "get_document_link"
    THEN IF Len(docs) = 0 THEN Done(r, "err:nodocs") ELSE Done(r, "ok")
    ELSE IF \E k \in 1..Len(docs) : docs[k].id = r.args.documentId
         THEN EnterOp(r, r.pc + 1)
         ELSE Done(r, "err:docnotfound")

\* A registry lookup that falls back to the help tool.
LookupToolFallback(name) == IF name \in AllTools THEN name ELSE "help"

\* tools.find(t => t.name === request.params.name): "none" when it finds nothing.
LookupTool(name) == IF name \in AllTools THEN name ELSE "none"

\* The CallTool handler: the tool is looked up by its name, the arguments are
\* parsed against its schema, and the tool's handler runs, which resolves its
\* tenant. The two throws leave as protocol-level errors.
HandlerStart(i) ==
    /\ inv[i].stage = "dispatched"
    /\ LET tool == LookupTool(inv[i].tool)
           issues == ZodIssues(tool, inv[i].args)
           userId == resolveUserIdFromExtra(inv[i].sid)
           r == [inv[i] EXCEPT !.userId = userId,
                               !.tool = tool,
                               !.args = Parsed(tool, inv[i].args),
                               !.ident = IF tool \in {"chat_with_store", "set_active_store"}
                                         THEN inv[i].args.storeId ELSE << >>]
       IN  inv' = [inv EXCEPT ![i] =
               IF tool = "none"
               THEN [@ EXCEPT !.stage = "error", !.result = "Unknown tool", !.args = NoArgs,
                              !.delivered = SendTo(inv[i].sid)]
               ELSE IF Len(issues) > 0
               THEN [@ EXCEPT !.stage = "error", !.result = "Invalid arguments",
                              !.error = issues, !.args = NoArgs,
                              !.delivered = SendTo(inv[i].sid)]
               ELSE IF tool = "help" THEN Done(r, "ok")
               ELSE IF userId = Null THEN Done(r, "err:nouser")
               ELSE EnterOp(r, 1)]
    /\ mcpLogs' = Sent(IF LookupTool(inv[i].tool) = "none" THEN mcpLogs
                       ELSE addMcpLog(mcpLogs, {LogEntry("call", inv[i].sid, Null)}),
                       inv'[i])
    /\ UNCHANGED <<authVars, sessionVars, userSettings, settingsCache, probe, registryVars, dataVars>>

\* A tools/list request is POSTed with sessionId: handlePost finds the session
\* or rejects, and the ListTools handler of that session's server logs and
\* answers with the cached listing. An answer is kept with what the gateway
\* had seen by then: the streams closed and the invocations finished.
ListTools(sessionId) ==
    /\ Len(listings) < MaxListings
    /\ IF PostDecision(sessionId) = "dispatched"
       THEN /\ cachedToolSchemas' = getCachedToolSchemas(cachedToolSchemas)
            /\ listings' = Append(listings,
                   [sid |-> sessionId,
                    tools |-> getCachedToolSchemas(cachedToolSchemas).list,
                    closed |-> {c \in ConnIds : conn[c].closedIn # "open"},
                    finished |-> {j \in DOMAIN inv : inv[j].stage \in {"done", "error"}}])
            /\ mcpLogs' = addMcpLog(mcpLogs,
                   {LogEntry("POST /sse", sessionId, Null),
                    LogEntry("list_tools", sessionId, Null)})
       ELSE /\ mcpLogs' = addMcpLog(mcpLogs,
                   {LogEntry("POST /sse", sessionId, Null),
                    LogEntry(IF PostDecision(sessionId) = "r500" THEN "POST error"
                             ELSE "POST rejected", sessionId, Null)})
            /\ UNCHANGED registryVars
    /\ UNCHANGED <<authVars, sessionVars, toolVars, probe, dataVars>>

\* The backend runs the query of a settings read that is under way; its
\* answer, with the row as it is now, is on its way back from here on.
SettingsServe(i) ==
    /\ inv[i].stage = "settings"
    /\ ~inv[i].held.set
    /\ inv' = [inv EXCEPT ![i].held =
            [set |-> TRUE, active_store_id |-> userSettings[inv[i].userId]]]
    /\ UNCHANGED <<authVars, sessionVars, userSettings, settingsCache, statusVars,
                   registryVars, dataVars>>

\* What sbFetch gives getUserSettings: the row as the backend read it, which
\* is the row as it is when the answer arrives unless the query ran earlier.
SettingsAnswer(r, fetchOk) ==
    IF fetchOk /\ r.held.set
    THEN [row |-> TRUE, active_store_id |-> r.held.active_store_id]
    ELSE SettingsRows(r.userId, fetchOk)

\* The settings read of a handler returns; the cache takes what was read.
SettingsReturn(i, fetchOk) ==
    /\ inv[i].stage = "settings"
    /\ LET data == SettingsAnswer(inv[i], fetchOk)
       IN  /\ settingsCache' = MapSet(settingsCache, inv[i].userId,
                   [data |-> data, expiresAt |-> now + SETTINGS_CACHE_TTL_MS])
           /\ inv' = [inv EXCEPT ![i] = AfterSettings([@ EXCEPT !.failed = @ \/ ~fetchOk], data)]
    /\ mcpLogs' = Sent(IF fetchOk THEN mcpLogs
                       ELSE addMcpLog(mcpLogs, {LogEntry("sbFetch error", 0, Null)}),
                       inv'[i])
    /\ UNCHANGED <<authVars, sessionVars, userSettings, probe, registryVars, dataVars>>

\* The stores read of a handler returns.
StoresReturn(i, fetchOk) ==
    /\ inv[i].stage \in {"find", "stores"}
    /\ inv' = [inv EXCEPT ![i] =
            AfterStores([@ EXCEPT !.failed = @ \/ ~fetchOk],
                        getStoresByUser(inv[i].userId, fetchOk))]
    /\ mcpLogs' = Sent(IF fetchOk THEN mcpLogs
                       ELSE addMcpLog(mcpLogs, {LogEntry("sbFetch error", 0, Null)}),
                       inv'[i])
    /\ UNCHANGED <<authVars, sessionVars, userSettings, settingsCache, probe, registryVars, dataVars>>

\* The documents read of a handler returns: of the store found for
\* list_documents and get_document_link, of the store named for delete_document.
DocsReturn(i, fetchOk) ==
    /\ inv[i].stage = "docs"
    /\ LET docs == getDocumentsByUser(inv[i].userId,
                       IF inv[i].tool = "delete_document" THEN inv[i].ident
                       ELSE inv[i].found,
                       fetchOk)
       IN  inv' = [inv EXCEPT ![i] =
               AfterDocs([@ EXCEPT !.failed = @ \/ ~fetchOk,
                                   !.docs = [k \in 1..Len(docs) |-> docs[k].id]],
                         docs)]
    /\ mcpLogs' = Sent(IF fetchOk THEN mcpLogs
                       ELSE addMcpLog(mcpLogs, {LogEntry("sbFetch error", 0, Null)}),
                       inv'[i])
    /\ UNCHANGED <<authVars, sessionVars, userSettings, settingsCache, probe, registryVars, dataVars>>

\* ---------------------------------------------------------------- citations
\* A grounding chunk holds a web part or a retrievedContext part; a part that
\* is absent reads as an empty uri and an empty title.
NoPart == [uri |-> << >>, title |-> << >>]
WebChunk(uri, title) == [web |-> [uri |-> uri, title |-> title], retrievedContext |-> NoPart]
DocChunk(uri, title) == [web |-> NoPart, retrievedContext |-> [uri |-> uri, title |-> title]]

\* The chunks an answer may hold: pages and documents, with and without a
\* title, one document chunk without a uri, one document under the uri of a page.
Chunks ==
    {WebChunk(<<"w", "/", "a">>, <<"T">>), WebChunk(<<"w", "/", "a">>, << >>),
     WebChunk(<<"w", "/", "b">>, << >>),
     DocChunk(<<"f", "/", "a">>, << >>), DocChunk(<<"f", "/", "a">>, <<"T">>),
     DocChunk(<<"f", "/", "b">>, << >>), DocChunk(<< >>, <<"T">>),
     DocChunk(<<"w", "/", "a">>, << >>)}

ChunkLists == UNION {[1..n -> Chunks] : n \in 0..MaxChunks}

\* uri.split("/").pop()
LastSegment(uri) ==
    LET slashes == {k \in 1..Len(uri) : uri[k] = "/"}
    IN  IF slashes = {} THEN uri
        ELSE SubSeq(uri, (CHOOSE k \in slashes : \A m \in slashes : m <= k) + 1, Len(uri))

\* "\n- ${chunk.web.title || chunk.web.uri} (${chunk.web.uri})"
WebLine(w) ==
    <<"-", " ">> \o (IF w.title # << >> THEN w.title ELSE w.uri) \o <<" ", "(">> \o w.uri \o <<")">>

\* "\n- ${label}", the label being the title or the last segment of the uri.
DocLine(r) == <<"-", " ">> \o (IF r.title # << >> THEN r.title ELSE LastSegment(r.uri))

\* A rendering that keeps no record of the sources it has listed.
RECURSIVE RenderAll(_, _, _)
RenderAll(chunks, k, seen) ==
    IF k > Len(chunks) THEN << >>
    ELSE IF chunks[k].web.uri # << >>
    THEN <<WebLine(chunks[k].web)>> \o RenderAll(chunks, k + 1, seen)
    ELSE IF chunks[k].retrievedContext.uri # << >>
    THEN <<DocLine(chunks[k].retrievedContext)>> \o RenderAll(chunks, k + 1, seen)
    ELSE RenderAll(chunks, k + 1, seen)

\* The loop over grounding.groundingChunks from its k-th chunk on, with the
\* set of the uris listed so far.
RECURSIVE Render(_, _, _)
Render(chunks, k, seen) ==
    IF k > Len(chunks) THEN << >>
    ELSE LET c == chunks[k]
         IN  IF c.web.uri # << >> /\ c.web.uri \notin seen
             THEN <<WebLine(c.web)>> \o Render(chunks, k + 1, seen \cup {c.web.uri})
             ELSE IF c.retrievedContext.uri # << >> /\ c.retrievedContext.uri \notin seen
             THEN <<DocLine(c.retrievedContext)>>
                      \o Render(chunks, k + 1, seen \cup {c.retrievedContext.uri})
             ELSE Render(chunks, k + 1, seen)

\* The lines ragQuery appends to the text: none without grounding chunks,
\* else the heading and the line of every source.
Citations(chunks) ==
    IF Len(chunks) = 0 THEN << >>
    ELSE <<<<"S", "o", "u", "r", "c", "e", "s", ":">>>> \o Render(chunks, 1, {})

\* ragQuery returns the text with the citations of the chunks the upstream
\* sent, or throws; the handler answers in-band either way.
RagResponse(i, ok, chunks) ==
    /\ inv[i].stage = "rag"
    /\ ~ok => chunks = << >>
    /\ inv' = [inv EXCEPT ![i] =
            Done([@ EXCEPT !.failed = @ \/ ~ok,
                           !.chunks = chunks,
                           !.sources = Citations(chunks)],
                 IF ok THEN "ok" ELSE "err:upstream")]
    /\ mcpLogs' = Sent(mcpLogs, inv'[i])
    /\ UNCHANGED <<authVars, sessionVars, userSettings, settingsCache, probe, registryVars, dataVars>>

\* ragQuery returns a text without grounding, or throws.
UpstreamReturn(i, ok) == RagResponse(i, ok, << >>)

\* A set_active_store that stores the identifier as the caller gave it.
ActiveStoreWriteRaw(r) == [userSettings EXCEPT ![r.userId] = r.ident]

\* What set_active_store writes: the id of the store that was found.
ActiveStoreWrite(r) == [userSettings EXCEPT ![r.userId] = r.found]

\* setActiveStore: sbPatch returns (a request that threw is logged, an answer
\* of the backend that is no success is not looked at; either way nothing is
\* raised),
\* then the settings cache entry of the tenant is dropped and the handler
\* reports success.
PatchReturn(i, patchOk) ==
    /\ inv[i].stage = "patch"
    /\ userSettings' = IF patchOk THEN ActiveStoreWrite(inv[i])
                       ELSE userSettings
    /\ settingsCache' = MapDelete(settingsCache, inv[i].userId)
    /\ inv' = [inv EXCEPT ![i] =
            Done([@ EXCEPT !.wrote = patchOk, !.failed = @ \/ ~patchOk], "ok")]
    /\ \E threw \in BOOLEAN :
          /\ patchOk => ~threw
          /\ mcpLogs' = Sent(IF threw
                             THEN addMcpLog(mcpLogs, {LogEntry("sbPatch error", 0, Null)})
                             ELSE mcpLogs,
                             inv'[i])
    /\ UNCHANGED <<authVars, sessionVars, probe, registryVars, dataVars>>

\* What ai.fileSearchStores.documents.delete may end with: it returns, or it
\* throws an error that carries the status of the answer and a message; the
\* message of a 403 names the document, whose id may hold any digits.
GeminiReturned == [status |-> "200", message |-> << >>]
GeminiErrors ==
    {[status |-> "404", message |-> <<"4", "0", "4", " ", "g", "o", "n", "e">>],
     [status |-> "500", message |-> <<"5", "0", "0">>],
     [status |-> "403", message |-> <<"4", "0", "3", " ", "d", "4", "0", "4">>]}

\* e.message?.includes("404")
Tolerated(e) == includes(e.message, <<"4", "0", "4">>)

\* The delete of delete_document at the upstream returns or throws: an error
\* that passes the test is passed over, any other ends the handler with an
\* in-band error.
GeminiDeleteReturn(i, e) ==
    /\ inv[i].stage = "gdelete"
    /\ inv' = [inv EXCEPT ![i] =
            IF e # GeminiReturned /\ ~Tolerated(e)
            THEN Done([@ EXCEPT !.failed = TRUE, !.gstatus = e.status], "err:upstream")
            ELSE EnterOp([@ EXCEPT !.gstatus = e.status], @.pc + 1)]
    /\ mcpLogs' = Sent(mcpLogs, inv'[i])
    /\ UNCHANGED <<authVars, sessionVars, userSettings, settingsCache, probe, registryVars, dataVars>>

\* The sbPatch of delete_document returns: when the backend took it, the row
\* with this id and this user_id has deleted_at set. The handler reports
\* success.
DocPatchReturn(i, patchOk) ==
    /\ inv[i].stage = "docpatch"
    /\ docsDeletedAt' =
          IF patchOk
          THEN docsDeletedAt \cup
               {DocsTable[k].id : k \in {x \in 1..Len(DocsTable) :
                                           /\ DocsTable[x].id = inv[i].args.documentId
                                           /\ DocsTable[x].user_id = inv[i].userId}}
          ELSE docsDeletedAt
    /\ inv' = [inv EXCEPT ![i] =
            Done([@ EXCEPT !.wrote = patchOk, !.failed = @ \/ ~patchOk], "ok")]
    /\ \E threw \in BOOLEAN :
          /\ patchOk => ~threw
          /\ mcpLogs' = Sent(IF threw
                             THEN addMcpLog(mcpLogs, {LogEntry("sbPatch error", 0, Null)})
                             ELSE mcpLogs,
                             inv'[i])
    /\ UNCHANGED <<authVars, sessionVars, userSettings, settingsCache, probe, registryVars, keyTouches, keyLastUsed>>

\* ------------------------------------------------ status and log-clear
ProbePaths == {"/api/mcp-status", "/api/mcp-logs/clear"}

\* The request logger: a request is logged unless its url is one of the
\* noisy ones.
RequestLogged(path, query) ==
    IF query = NoToken /\ path \in {"/", "/api/mcp-status"} THEN {}
    ELSE {UrlEntry(path, query)}

\* An auth that only asks for a token to be there.
ProbeDecisionAnyToken(token, res) == AuthDecisionOpen(token, res)

\* The auth middleware in front of the two endpoints.
ProbeDecision(token, res) == AuthDecision(token, res)

\* The body of GET /api/mcp-status: every live session, the history, the log.
StatusBody(log) ==
    [sessions |-> {[sessionId |-> sid, userId |-> sessions[sid].userId] : sid \in DOMAIN sessions},
     history |-> sessionHistory,
     logs |-> log]

\* The rest of the request once resolveUser has returned res: auth answers 401
\* or 403, or the endpoint's handler runs. `before` keeps the log as it stood
\* when the request came in.
ProbeAfterResolve(path, token, query, res, logged, before) ==
    LET answer == ProbeDecision(token, res)
        p == [probe EXCEPT !.stage = "done", !.path = path, !.token = token,
                           !.query = query, !.resolved = res, !.before = before]
    IN  IF answer # "next"
        THEN /\ mcpLogs' = addMcpLog(logged, {UrlEntry(answer, query)})
             /\ probe' = [p EXCEPT !.status = answer]
        ELSE IF path = "/api/mcp-status"
        THEN /\ mcpLogs' = logged
             /\ probe' = [p EXCEPT !.status = "r200", !.body = StatusBody(logged)]
        ELSE /\ mcpLogs' = addMcpLog({}, {LogEntry("Logs cleared", 0, Null)})
             /\ probe' = [p EXCEPT !.status = "r200"]

\* GET /api/mcp-status or POST /api/mcp-logs/clear arrives, its token in the
\* Authorization header or in the query string.
ProbeRequestVia(path, token, inQuery) ==
    /\ probe.stage = "unused"
    /\ IF ResolveSync(token).pending
       THEN /\ probe' = [probe EXCEPT !.stage = "resolving", !.path = path,
                                      !.token = token,
                                      !.query = UrlQuery(token, inQuery),
                                      !.before = mcpLogs]
            /\ mcpLogs' = addMcpLog(mcpLogs, RequestLogged(path, UrlQuery(token, inQuery)))
       ELSE ProbeAfterResolve(path, token, UrlQuery(token, inQuery), ResolveSync(token),
                              addMcpLog(mcpLogs,
                                        RequestLogged(path, UrlQuery(token, inQuery))),
                              mcpLogs)
    /\ UNCHANGED <<authVars, sessionVars, toolVars, registryVars, dataVars>>

\* The request of a client that sends the Authorization header.
ProbeRequest(path, token) == ProbeRequestVia(path, token, FALSE)

\* The key lookup of the request returns.
ProbeAuthReturn(fetchOk) ==
    /\ probe.stage = "resolving"
    /\ LET rows == KeyLookup(probe.token, fetchOk)
       IN  /\ authCache' = CacheAfterRows(probe.token, rows)
           /\ keyTouches' = TouchesAfterRows(0, probe.token, rows)
           /\ ProbeAfterResolve(probe.path, probe.token, probe.query, ResolveRows(rows),
                                IF fetchOk THEN mcpLogs
                                ELSE addMcpLog(mcpLogs, {LogEntry("sbFetch error", 0, Null)}),
                                probe.before)
    /\ UNCHANGED <<configured, now, keyActive, sessionVars, toolVars, registryVars, docsDeletedAt, keyLastUsed>>

\* An update of last_used_at that is under way ends. A request that threw is
\* logged by sbPatch. Were the outcome raised to the stream request that
\* launched the update, the request would end with the 500 of auth.
LastUsedReturn(p, outcome) ==
    /\ p \in keyTouches
    /\ keyTouches' = keyTouches \ {p}
    /\ keyLastUsed' = IF outcome = "ok" THEN [keyLastUsed EXCEPT ![p.key] = <<p.at>>]
                      ELSE keyLastUsed
    /\ mcpLogs' = IF outcome = "threw"
                  THEN addMcpLog(mcpLogs, {LogEntry("sbPatch error", 0, Null)})
                  ELSE mcpLogs
    /\ conn' = IF TouchRaised(outcome) /\ p.by # 0
               THEN [conn EXCEPT ![p.by].stage = "r500"]
               ELSE conn
    /\ UNCHANGED <<authVars, nextSid, sessions, sessionHistory, toolVars, probe,
                   registryVars, docsDeletedAt>>

\* -------------------------------------------------------------- environment
Advance ==
    /\ now < MaxTime * ClockStepMs
    /\ now' = now + ClockStepMs
    /\ UNCHANGED <<configured, keyActive, authCache, sessionVars, toolVars, statusVars, registryVars, dataVars>>

\* The web application switches a key off or on again.
ToggleKey(k) ==
    /\ keyActive' = [keyActive EXCEPT ![k] = ~@]
    /\ UNCHANGED <<configured, now, authCache, sessionVars, toolVars, statusVars, registryVars, dataVars>>

\* A tenant sets its active store through the web application.
WebSetActive(t, id) ==
    /\ userSettings[t] # id
    /\ userSettings' = [userSettings EXCEPT ![t] = id]
    /\ UNCHANGED <<authVars, sessionVars, settingsCache, inv, statusVars, registryVars, dataVars>>

Next ==
    \/ \E c \in ConnIds, token \in Tokens : GetStream(c, token)
    \/ \E c \in ConnIds, fetchOk \in BOOLEAN : AuthReturn(c, fetchOk)
    \/ \E c \in ConnIds : ConnClose(c)
    \/ \E c \in ConnIds : Heartbeat(c)
    \/ \E i \in InvIds, sessionId \in 0..MaxConns : Post(i, sessionId, "chat", ChatArgs(Undefined))
    \/ Advance
    \/ \E k \in KeyRows \cap Tokens : ToggleKey(k)

Spec == Init /\ [][Next]_vars

\* The tool calls of the sessions: every handler step, with the clock standing
\* still and the keys left as they are.
NextTools ==
    \/ \E c \in ConnIds, token \in Tokens : GetStream(c, token)
    \/ \E c \in ConnIds, fetchOk \in BOOLEAN : AuthReturn(c, fetchOk)
    \/ \E c \in ConnIds : ConnClose(c)
    \/ \E i \in InvIds, sessionId \in 0..MaxConns, tool \in Tools, arg \in StoreArgs :
           Post(i, sessionId, tool, ChatArgs(arg))
    \/ \E i \in InvIds : HandlerStart(i)
    \/ \E i \in InvIds, fetchOk \in BOOLEAN : SettingsReturn(i, fetchOk)
    \/ \E i \in InvIds, fetchOk \in BOOLEAN : StoresReturn(i, fetchOk)
    \/ \E i \in InvIds, ok \in BOOLEAN : UpstreamReturn(i, ok)
    \/ \E t \in {KeyOwner(k) : k \in KeyRows \cap Tokens}, id \in StorePointers :
           WebSetActive(t, id)

SpecTools == Init /\ [][NextTools]_vars

\* Every tool of the registry and every shape of request, on the one stream of
\* one client.
\* The client is tenant A or the fresh tenant.
AdminTokens == {KeyA, KeyC}
AdminNames == AllTools \cup {"nonexistent_tool"}
AdminMessages == {Undefined, << >>, <<"h", "i">>}
AdminStoreArgs == {Undefined, NotAString, << >>, <<"A", "l">>, <<"s", "1">>, <<"z">>}
AdminDocArgs == {Undefined, <<"d", "1">>, <<"d", "x">>}

NextAdmin ==
    \/ \E c \in 1..AdminConns, token \in AdminTokens : GetStream(c, token)
    \/ \E c \in 1..AdminConns, fetchOk \in BOOLEAN : AuthReturn(c, fetchOk)
    \/ \E c \in 1..AdminConns : ConnClose(c)
    \/ \E i \in InvIds, sessionId \in 1..AdminConns, name \in AdminNames,
          message \in AdminMessages, storeId \in AdminStoreArgs, documentId \in AdminDocArgs :
           Post(i, sessionId, name,
                [message |-> message, storeId |-> storeId, documentId |-> documentId])
    \/ \E i \in InvIds : HandlerStart(i)
    \/ \E i \in InvIds, fetchOk \in BOOLEAN : SettingsReturn(i, fetchOk)
    \/ \E i \in InvIds, fetchOk \in BOOLEAN : StoresReturn(i, fetchOk)
    \/ \E i \in InvIds, fetchOk \in BOOLEAN : DocsReturn(i, fetchOk)
    \/ \E i \in InvIds, ok \in BOOLEAN : UpstreamReturn(i, ok)
    \/ \E i \in InvIds, patchOk \in BOOLEAN : PatchReturn(i, patchOk)
    \/ \E i \in InvIds, e \in {GeminiReturned} \cup GeminiErrors : GeminiDeleteReturn(i, e)
    \/ \E i \in InvIds, patchOk \in BOOLEAN : DocPatchReturn(i, patchOk)
    \/ \E id \in StorePointers : WebSetActive("A", id)

SpecAdmin == Init /\ [][NextAdmin]_vars

\* The streams and calls of two tenants, and one request to the status or to
\* the log-clear endpoint.
NextStatus ==
    \/ \E c \in ConnIds, token \in {KeyA, KeyB} : GetStream(c, token)
    \/ \E c \in ConnIds, fetchOk \in BOOLEAN : AuthReturn(c, fetchOk)
    \/ \E c \in ConnIds : ConnClose(c)
    \/ \E i \in InvIds, sessionId \in 1..MaxConns : Post(i, sessionId, "get_active_store", NoArgs)
    \/ \E i \in InvIds : HandlerStart(i)
    \/ \E i \in InvIds, fetchOk \in BOOLEAN : SettingsReturn(i, fetchOk)
    \/ \E path \in ProbePaths, token \in Tokens : ProbeRequest(path, token)
    \/ \E fetchOk \in BOOLEAN : ProbeAuthReturn(fetchOk)

SpecStatus == Init /\ [][NextStatus]_vars

\* A gateway that has served HistPrefill streams of tenant A, one after the
\* other, each closed by its client with the transport's listener running
\* first, and whose activity log was cleared after the last of them.
\* The record at place k is the one the close of session n - k + 1 wrote.
HistoryAfter(n) ==
    [k \in 1..n |-> Unshift(<< >>, n - k + 1, SessionEntry(1, KeyOwner(KeyA), KeyA))[1]]

InitHistory ==
    /\ configured = TRUE
    /\ now = 0
    /\ keyActive = [k \in KeyRows |-> TRUE]
    /\ authCache = MapSet(EmptyMap, KeyA,
                          [userId |-> KeyOwner(KeyA), expiresAt |-> now + AUTH_CACHE_TTL_MS])
    /\ conn = [c \in ConnIds |-> UnusedConn]
    /\ nextSid = HistPrefill + 1
    /\ sessions = EmptyMap
    /\ sessionHistory = HistoryAfter(HistPrefill)
    /\ userSettings = [t \in Tenants |-> << >>]
    /\ settingsCache = EmptyMap
    /\ inv = [i \in InvIds |-> UnusedInv]
    /\ mcpLogs = addMcpLog({}, {LogEntry("Logs cleared", 0, Null)})
    /\ probe = UnusedProbe
    /\ cachedToolSchemas = NotCached
    /\ listings = << >>
    /\ docsDeletedAt = {}
    /\ keyTouches = {}
    /\ keyLastUsed = [k \in KeyRows |-> << >>]

NextHistory ==
    \/ \E c \in ConnIds, token \in {KeyA, KeyB} : GetStream(c, token)
    \/ \E c \in ConnIds, fetchOk \in BOOLEAN : AuthReturn(c, fetchOk)
    \/ \E c \in ConnIds : ConnClose(c)
    \/ \E c \in ConnIds : Heartbeat(c)
    \/ Advance

SpecHistory == InitHistory /\ [][NextHistory]_vars

\* Requests that carry their credential in the query string or in the header:
\* the streams of tenant A and of a caller without a valid key, and the
\* status and log-clear requests of any caller.
NextUrl ==
    \/ \E c \in ConnIds, token \in {KeyA, Jwt}, inQuery \in BOOLEAN :
          GetStreamVia(c, token, inQuery)
    \/ \E c \in ConnIds, fetchOk \in BOOLEAN : AuthReturn(c, fetchOk)
    \/ \E c \in ConnIds : ConnClose(c)
    \/ \E path \in ProbePaths, token \in Tokens, inQuery \in BOOLEAN :
          ProbeRequestVia(path, token, inQuery)
    \/ \E fetchOk \in BOOLEAN : ProbeAuthReturn(fetchOk)

SpecUrl == Init /\ [][NextUrl]_vars

\* Stream and status requests of tenant A whose key lookups launch the update
\* of last_used_at, with every outcome of the update.
NextTouch ==
    \/ \E c \in ConnIds : GetStream(c, KeyA)
    \/ \E c \in ConnIds, fetchOk \in BOOLEAN : AuthReturn(c, fetchOk)
    \/ \E c \in ConnIds : ConnClose(c)
    \/ ProbeRequest("/api/mcp-status", KeyA)
    \/ \E fetchOk \in BOOLEAN : ProbeAuthReturn(fetchOk)
    \/ \E p \in keyTouches, outcome \in TouchOutcomes : LastUsedReturn(p, outcome)

SpecTouch == Init /\ [][NextTouch]_vars

\* Streams of two tenants, tool calls on them and tools/list requests.
NextList ==
    \/ \E c \in ConnIds, token \in {KeyA, KeyB} : GetStream(c, token)
    \/ \E c \in ConnIds, fetchOk \in BOOLEAN : AuthReturn(c, fetchOk)
    \/ \E c \in ConnIds : ConnClose(c)
    \/ \E i \in InvIds, sessionId \in 1..MaxConns, name \in {"help", "nosuch"} :
          Post(i, sessionId, name, NoArgs)
    \/ \E i \in InvIds : HandlerStart(i)
    \/ \E sessionId \in 1..MaxConns : ListTools(sessionId)

SpecList == Init /\ [][NextList]_vars

\* One chat of one client, answered by the upstream with any list of
\* grounding chunks.
NextCite ==
    \/ \E c \in 1..AdminConns : GetStream(c, KeyA)
    \/ \E c \in 1..AdminConns, fetchOk \in BOOLEAN : AuthReturn(c, fetchOk)
    \/ \E i \in InvIds, sessionId \in 1..AdminConns :
           Post(i, sessionId, "chat", ChatArgs(<<"s", "1">>))
    \/ \E i \in InvIds : HandlerStart(i)
    \/ \E i \in InvIds, fetchOk \in BOOLEAN : SettingsReturn(i, fetchOk)
    \/ \E i \in InvIds, fetchOk \in BOOLEAN : StoresReturn(i, fetchOk)
    \/ \E i \in InvIds, ok \in BOOLEAN, chunks \in ChunkLists : RagResponse(i, ok, chunks)

SpecCite == Init /\ [][NextCite]_vars

\* Calls that follow one another or overlap on the stream of one client.
SeqRequests ==
    {[name |-> "set_active_store", args |-> ChatArgs(<<"A", "l">>)],
     [name |-> "set_active_store", args |-> ChatArgs(<<"s", "1">>)],
     [name |-> "get_active_store", args |-> NoArgs],
     [name |-> "chat_with_store", args |-> ChatArgs(<<"s", "1">>)],
     [name |-> "chat_with_store", args |-> NoArgs],
     [name |-> "nonexistent_tool", args |-> NoArgs]}

InitSeq ==
    /\ configured = TRUE
    /\ now = 0
    /\ keyActive = [k \in KeyRows |-> TRUE]
    /\ authCache = EmptyMap
    /\ conn = [c \in ConnIds |-> UnusedConn]
    /\ nextSid = 1
    /\ sessions = EmptyMap
    /\ sessionHistory = << >>
    /\ userSettings = [t \in Tenants |-> << >>]
    /\ settingsCache = EmptyMap
    /\ inv = [i \in 1..SeqInvs |-> UnusedInv]
    /\ mcpLogs = StartupLogs
    /\ probe = UnusedProbe
    /\ cachedToolSchemas = NotCached
    /\ listings = << >>
    /\ docsDeletedAt = {}
    /\ keyTouches = {}
    /\ keyLastUsed = [k \in KeyRows |-> << >>]

NextSeq ==
    \/ \E c \in 1..AdminConns : GetStream(c, KeyA)
    \/ \E c \in 1..AdminConns, fetchOk \in BOOLEAN : AuthReturn(c, fetchOk)
    \/ \E c \in 1..AdminConns : ConnClose(c)
    \/ \E i \in 1..SeqInvs, sessionId \in 1..AdminConns, q \in SeqRequests :
           Post(i, sessionId, q.name, q.args)
    \/ \E i \in 1..SeqInvs : HandlerStart(i)
    \/ \E i \in 1..SeqInvs : SettingsServe(i)
    \/ \E i \in 1..SeqInvs, fetchOk \in BOOLEAN : SettingsReturn(i, fetchOk)
    \/ \E i \in 1..SeqInvs, fetchOk \in BOOLEAN : StoresReturn(i, fetchOk)
    \/ \E i \in 1..SeqInvs, ok \in BOOLEAN : UpstreamReturn(i, ok)
    \/ \E i \in 1..SeqInvs, patchOk \in BOOLEAN : PatchReturn(i, patchOk)

SpecSeq == InitSeq /\ [][NextSeq]_vars

\* Document calls that follow one another or overlap on the stream of one
\* client.
DocRequests ==
    {[name |-> "delete_document",
      args |-> [message |-> Undefined, storeId |-> <<"s", "1">>, documentId |-> <<"d", "1">>]],
     [name |-> "list_documents", args |-> ChatArgs(<<"s", "1">>)]}

NextDocs ==
    \/ \E c \in 1..AdminConns : GetStream(c, KeyA)
    \/ \E c \in 1..AdminConns, fetchOk \in BOOLEAN : AuthReturn(c, fetchOk)
    \/ \E i \in 1..SeqInvs, sessionId \in 1..AdminConns, q \in DocRequests :
           Post(i, sessionId, q.name, q.args)
    \/ \E i \in 1..SeqInvs : HandlerStart(i)
    \/ \E i \in 1..SeqInvs, fetchOk \in BOOLEAN : SettingsReturn(i, fetchOk)
    \/ \E i \in 1..SeqInvs, fetchOk \in BOOLEAN : StoresReturn(i, fetchOk)
    \/ \E i \in 1..SeqInvs, fetchOk \in BOOLEAN : DocsReturn(i, fetchOk)
    \/ \E i \in 1..SeqInvs, e \in {GeminiReturned} \cup GeminiErrors : GeminiDeleteReturn(i, e)
    \/ \E i \in 1..SeqInvs, patchOk \in BOOLEAN : DocPatchReturn(i, patchOk)

SpecDocs == InitSeq /\ [][NextDocs]_vars

\* ==================================================================== claims
Range(f) == {f[x] : x \in DOMAIN f}

\* The tenant that handleSse recorded for the session sid when it created it.
CreatedTenant(sid) == conn[CHOOSE c \in ConnIds : conn[c].sid = sid].userId

OwnHandles(t) ==
    {toStoreName(StoresTable[k].id) :
        k \in {j \in 1..Len(StoresTable) : StoresTable[j].user_id = t}}

HandlerRan(i) == inv[i].stage \in {"settings", "find", "stores", "rag", "done"}

Rejected == {"r400missing", "r400notfound"}

HistoryCount(h, sid) == Cardinality({k \in 1..Len(h) : h[k].sessionId = sid})

C2_SessionIdentityFixed ==
    [][\A s \in DOMAIN sessions \cap DOMAIN sessions' :
          /\ sessions'[s].userId = sessions[s].userId
          /\ sessions'[s].token = sessions[s].token]_vars

\* A session is live although its key was switched off and its entry of the
\* credential cache has expired.
C2_Witness ==
    \E s \in DOMAIN sessions :
        /\ sessions[s].token \in KeyRows
        /\ ~keyActive[sessions[s].token]
        /\ MapHas(authCache, sessions[s].token)
        /\ authCache[sessions[s].token].expiresAt <= now

\* C3 as stated: the handles of every upstream call are stores of the calling
\* tenant, and a tenant that names an id or display name that only a store of
\* another tenant has gets "not found" and no upstream call.
NamesForeignStore(t, ident) ==
    /\ \E k \in 1..Len(StoresTable) :
          /\ StoresTable[k].user_id # t
          /\ ident \in {StoresTable[k].id, StoresTable[k].display_name}
    /\ \A k \in 1..Len(StoresTable) :
          StoresTable[k].user_id = t =>
              ident \notin {StoresTable[k].id, StoresTable[k].display_name}

MatchesOwnStore(t, ident) ==
    \E k \in 1..Len(StoresTable) :
        /\ StoresTable[k].user_id = t
        /\ StoreMatches([id |-> StoresTable[k].id,
                         displayName |-> StoresTable[k].display_name],
                        toLowerCase(ident))

C3_Original ==
    \A i \in InvIds : (HandlerRan(i) /\ inv[i].userId \in Tenants) =>
        /\ inv[i].upstream => Range(inv[i].handles) \subseteq OwnHandles(inv[i].userId)
        /\ (inv[i].stage \in {"rag", "done"} /\ NamesForeignStore(inv[i].userId, inv[i].ident)) =>
               /\ ~inv[i].upstream
               /\ inv[i].result \in {"none", "err:notfound"}

\* C3 amended: ... gets "not found" and no upstream call when the name also
\* matches none of the tenant's own stores (by id, by display name or as a
\* part of a display name, letter case ignored).
C3_ForeignStoreNotFound ==
    \A i \in InvIds : (HandlerRan(i) /\ inv[i].userId \in Tenants) =>
        /\ inv[i].upstream => Range(inv[i].handles) \subseteq OwnHandles(inv[i].userId)
        /\ (/\ inv[i].stage \in {"rag", "done"}
            /\ NamesForeignStore(inv[i].userId, inv[i].ident)
            /\ ~MatchesOwnStore(inv[i].userId, inv[i].ident)) =>
               /\ ~inv[i].upstream
               /\ inv[i].result = "err:notfound"

\* Tenant B named the id of tenant A's store and got "not found".
C3_Witness ==
    \E i \in InvIds :
        /\ inv[i].userId = "B"
        /\ inv[i].ident = <<"s", "1">>
        /\ inv[i].stage = "done"
        /\ inv[i].result = "err:notfound"
        /\ ~inv[i].upstream

\* C4: a POST whose sessionId is missing or no key of the live map is answered
\* 400, and what it carried never reaches a handler: no tenant is resolved for
\* it, no data-layer or upstream call is made and no result is produced.
C4_UnknownSessionRejected ==
    [][\A i \in InvIds :
          /\ (/\ inv[i].stage = "unused"
              /\ inv'[i].stage # "unused"
              /\ (inv'[i].sid = 0 \/ ~MapHas(sessions, inv'[i].sid)))
             => inv'[i].stage \in Rejected
          /\ inv[i].stage \in Rejected =>
                /\ inv'[i] = inv[i]
                /\ inv[i].userId = Null
                /\ inv[i].dataUsers = {}
                /\ ~inv[i].upstream
                /\ inv[i].result = "none"]_vars

\* A POST named a session that is not live while another session was live.
C4_Witness ==
    \E i \in InvIds :
        /\ inv[i].stage = "r400notfound"
        /\ DOMAIN sessions # {}

\* C5: an identifier that was issued and is no longer in the live map never
\* comes back, a new session gets an identifier that was never issued, and a
\* POST that names a closed session is answered "session not found".
C5_ClosedSessionStaysClosed ==
    [][/\ \A s \in 1..(nextSid - 1) : ~MapHas(sessions, s) => ~MapHas(sessions', s)
       /\ \A s \in DOMAIN sessions' \ DOMAIN sessions : s >= nextSid
       /\ \A i \in InvIds :
             (/\ inv[i].stage = "unused"
              /\ inv'[i].stage # "unused"
              /\ inv'[i].sid \in 1..(nextSid - 1)
              /\ ~MapHas(sessions, inv'[i].sid))
             => inv'[i].stage = "r400notfound"]_vars

\* A client reconnected with the same key and then a POST with its old
\* sessionId was refused.
C5_Witness ==
    \E i \in InvIds, c \in ConnIds, s \in DOMAIN sessions :
        /\ inv[i].stage = "r400notfound"
        /\ conn[c].sid = inv[i].sid
        /\ conn[c].stage = "established"
        /\ s > conn[c].sid
        /\ sessions[s].token = conn[c].token

\* The session map, the history and the heartbeat timer of a close state.
SessionState(st) == [sessions |-> st.sessions, history |-> st.history, timer |-> st.timer]

\* C6: on every stream, whichever close trigger comes first removes the entry,
\* any further trigger changes nothing of the session map, the history and
\* the timer, and the history never holds two records of one sessionId.
C6_CloseIdempotent ==
    \A c \in ConnIds : conn[c].stage = "established" =>
        LET sid == conn[c].sid
            st == CloseState(c)
            t == TransportOnClose(st, sid)
            r == ResOnClose(st, sid)
        IN  /\ HistoryCount(sessionHistory, sid) <= 1
            /\ HistoryCount(t.history, sid) <= 1
            /\ ~MapHas(t.sessions, sid) /\ ~t.timer
            /\ (MapHas(sessions, sid) => ~MapHas(r.sessions, sid) /\ ~r.timer)
            /\ SessionState(TransportOnClose(t, sid)) = SessionState(t)
            /\ SessionState(ResOnClose(t, sid)) = SessionState(t)
            /\ SessionState(TransportOnClose(r, sid)) = SessionState(r)
            /\ SessionState(ResOnClose(r, sid)) = SessionState(r)
            /\ conn[c].closedIn = "established" =>
                   ~MapHas(sessions, sid) /\ ~conn[c].timer

\* The response of an established stream emitted close, both listeners ran,
\* and the history holds the one record of the session.
C6_Witness ==
    \E c \in ConnIds :
        /\ conn[c].closedIn = "established"
        /\ ~MapHas(sessions, conn[c].sid)
        /\ HistoryCount(sessionHistory, conn[c].sid) = 1

\* C7 as stated: once the connection of a session has closed after the session
\* was put into the live map, and the close event has been handled, the
\* session is not in the map and its heartbeat timer is not running.
C7_ClosedConnectionUnregistered ==
    \A c \in ConnIds :
        (conn[c].sid # 0 /\ conn[c].closedIn \in {"established", "failed"}) =>
            /\ ~MapHas(sessions, conn[c].sid)
            /\ ~conn[c].timer

\* C8 as stated: once a heartbeat tick has found the stream closed, the
\* session is not in the live map.
C8_HeartbeatFailureTearsDown ==
    \A c \in ConnIds :
        (conn[c].sid # 0 /\ conn[c].dropped) => ~MapHas(sessions, conn[c].sid)

\* C9: a request answered 401 or 403 has no session, and every session in the
\* live map was opened by a request that carried a token which resolveUser
\* reported valid, with the tenant resolveUser returned for it.
C9_OnlyAuthenticatedSessions ==
    /\ \A c \in ConnIds :
          /\ conn[c].stage = "r401" <=> (conn[c].stage # "unused" /\ conn[c].token = NoToken)
          /\ conn[c].stage = "r403" => ~conn[c].resolved.valid
          /\ conn[c].stage \in {"r401", "r403", "resolving"} =>
                /\ conn[c].sid = 0
                /\ \A s \in DOMAIN sessions : sessions[s].conn # c
    /\ \A s \in DOMAIN sessions :
          LET c == sessions[s].conn
          IN  /\ conn[c].sid = s
              /\ conn[c].token # NoToken
              /\ conn[c].resolved.valid
              /\ sessions[s].userId = conn[c].resolved.userId
              /\ sessions[s].token = conn[c].token

\* A request with a key that is switched off was answered 403 while a session
\* was live.
C9_Witness ==
    \E c \in ConnIds :
        /\ conn[c].stage = "r403"
        /\ conn[c].token \in KeyRows
        /\ DOMAIN sessions # {}

\* C10: a request that finds an expired entry of its token in the credential
\* cache goes to the backend, and what resolveUser returns after a lookup is
\* valid only if the key is active at that moment, with the key's owner.
C10_ExpiredEntryNotServed ==
    [][\A c \in ConnIds :
          /\ (/\ conn[c].stage = "unused"
              /\ conn'[c].stage # "unused"
              /\ configured
              /\ ~StartsWith(conn'[c].token, <<"e", "y", "J">>)
              /\ MapHas(authCache, conn'[c].token)
              /\ authCache[conn'[c].token].expiresAt <= now)
             => conn'[c].stage = "resolving"
          /\ (/\ conn[c].stage = "resolving"
              /\ conn'[c].stage # "resolving"
              /\ conn'[c].resolved.valid)
             => /\ conn[c].token \in KeyRows
                /\ keyActive[conn[c].token]
                /\ conn'[c].resolved.userId = KeyOwner(conn[c].token)]_vars

\* A request found an expired entry, looked the key up and was answered 403
\* although the cache still holds a tenantId for it.
C10_Witness ==
    \E c \in ConnIds :
        /\ conn[c].cached = "expired"
        /\ conn[c].stage = "r403"
        /\ MapHas(authCache, conn[c].token)

C12_ForeignTokenRejected ==
    /\ \A c \in ConnIds :
          (conn[c].stage # "unused" /\ StartsWith(conn[c].token, <<"e", "y", "J">>)) =>
              /\ conn[c].stage # "resolving"
              /\ ~conn[c].resolved.valid
    /\ \A t \in DOMAIN authCache : ~StartsWith(t, <<"e", "y", "J">>)

\* The stages of a request that went through the CallTool handler into the
\* handler of a tool.
InHandler(i) ==
    inv[i].stage \in {"settings", "find", "stores", "docs", "rag", "patch", "gdelete",
                      "docpatch", "done"}

\* C13: in an unconfigured gateway a request with a token is resolved valid
\* with the tenantId null, and on a session without a tenant every tool but
\* help answers with the in-band error and makes no data-layer read, no
\* data-layer write and no upstream call.
C13_NullTenantRefused ==
    /\ \A c \in ConnIds :
          (~configured /\ conn[c].stage # "unused" /\ conn[c].token # NoToken) =>
              /\ conn[c].resolved.valid
              /\ conn[c].resolved.userId = Null
              /\ conn[c].stage \in {"established", "failed"}
    /\ \A i \in DOMAIN inv :
          (/\ InHandler(i)
           /\ inv[i].tool # "help"
           /\ CreatedTenant(inv[i].sid) = Null) =>
              /\ inv[i].stage = "done"
              /\ inv[i].result = "err:nouser"
              /\ inv[i].ops = {}
              /\ inv[i].dataUsers = {}
              /\ ~inv[i].upstream
              /\ ~inv[i].wrote

\* In an unconfigured gateway delete_document was called with valid arguments
\* and answered that there is no user session.
C13_Witness ==
    \E i \in DOMAIN inv :
        /\ ~configured
        /\ inv[i].tool = "delete_document"
        /\ inv[i].args.documentId = <<"d", "1">>
        /\ inv[i].result = "err:nouser"

\* C14: the step that ends a request with a protocol-level error changes
\* nothing but that request, an unknown tool name ends with the error
\* "Unknown tool" before any handler has run, and the session of a request
\* that ended so still takes a POST.
C14_StructuralErrorLocal ==
    [][\A i \in DOMAIN inv :
          /\ (inv[i].stage = "dispatched" /\ inv'[i].stage = "error") =>
                /\ sessions' = sessions
                /\ conn' = conn
                /\ sessionHistory' = sessionHistory
                /\ userSettings' = userSettings
                /\ settingsCache' = settingsCache
                /\ \A j \in DOMAIN inv \ {i} : inv'[j] = inv[j]
                /\ inv'[i].userId = Null
                /\ inv'[i].ops = {}
                /\ (MapHas(sessions, inv[i].sid)
                    /\ conn[sessions[inv[i].sid].conn].stage = "established")
                   => PostDecision(inv[i].sid)' = "dispatched"
          /\ (/\ inv[i].stage = "dispatched"
              /\ inv'[i].stage # "dispatched"
              /\ inv[i].tool \notin AllTools) =>
                /\ inv'[i].stage = "error"
                /\ inv'[i].result = "Unknown tool"
          /\ inv[i].stage = "error" => inv'[i] = inv[i]]_vars

\* A request for an unknown tool ended with the error, and a request posted
\* after that on the same session was answered by chat_with_store.
C14_Witness ==
    \E i, j \in DOMAIN inv :
        /\ inv[i].stage = "error"
        /\ inv[i].result = "Unknown tool"
        /\ i \in inv[j].prior
        /\ inv[j].sid = inv[i].sid
        /\ inv[j].tool = "chat_with_store"
        /\ inv[j].stage = "done"
        /\ inv[j].result = "ok"

\* A field of the schema of a tool that the arguments violate.
FieldFails(tool, args, k) ==
    LET f == Schema(tool)[k]
    IN  \/ args[f.path] = Undefined /\ f.kind # "optional"
        \/ args[f.path] = NotAString
        \/ args[f.path] = << >> /\ f.kind = "min1"

\* C15: a request for a known tool whose arguments violate its schema ends
\* with the error "Invalid arguments" before the handler has run, and the
\* error lists every failing field with its reason, and no other field.
C15_EveryIssueListed ==
    [][\A i \in DOMAIN inv :
          (/\ inv[i].stage = "dispatched"
           /\ inv'[i].stage # "dispatched"
           /\ inv[i].tool \in AllTools
           /\ \E k \in 1..Len(Schema(inv[i].tool)) : FieldFails(inv[i].tool, inv[i].args, k)) =>
              /\ inv'[i].stage = "error"
              /\ inv'[i].result = "Invalid arguments"
              /\ inv'[i].ops = {}
              /\ inv'[i].userId = Null
              /\ \A k \in 1..Len(Schema(inv[i].tool)) :
                    FieldFails(inv[i].tool, inv[i].args, k) <=>
                        \E e \in 1..Len(inv'[i].error) :
                            /\ inv'[i].error[e].path = Schema(inv[i].tool)[k].path
                            /\ inv'[i].error[e].message # "none"]_vars

\* A request ended with an error that lists two failing fields.
C15_Witness ==
    \E i \in DOMAIN inv :
        /\ inv[i].stage = "error"
        /\ inv[i].tool = "chat_with_store"
        /\ Len(inv[i].error) = 2
        /\ inv[i].error[1].path = "message"
        /\ inv[i].error[2].path = "storeId"

\* C16 as stated: a request that reached the handler of a tool never ends
\* with a protocol-level error and never changes the session map, and when a
\* data-layer or upstream call of the handler failed, the result it ends
\* with is an in-band error.
C16_FailuresInBand ==
    [][\A i \in DOMAIN inv :
          (InHandler(i) /\ inv[i].stage # "done") =>
              /\ inv'[i].stage # "error"
              /\ (inv'[i] # inv[i] => sessions' = sessions)
              /\ (inv'[i].stage = "done" /\ inv'[i].failed) =>
                     inv'[i].result \in {"err:noactive", "err:notfound", "err:nostores",
                                         "err:nodocs", "err:docnotfound", "err:upstream"}]_vars

\* The stores of a tenant as the data layer returns them.
OwnStores(t) == getStoresByUser(t, TRUE)

\* C17 as stated: when set_active_store(N) has reported success and written,
\* for a tenant that owns a store with the display name N, a get_active_store
\* posted after that on the same session, run for the same tenant while the
\* session is live and with its reads succeeding, reports N.
C17_SetThenGetRoundTrip ==
    \A i, j \in DOMAIN inv :
        (/\ inv[i].tool = "set_active_store"
         /\ inv[i].stage = "done" /\ inv[i].result = "ok" /\ inv[i].wrote
         /\ \E k \in 1..Len(OwnStores(inv[i].userId)) :
                OwnStores(inv[i].userId)[k].displayName = inv[i].ident
         /\ i \in inv[j].prior
         /\ inv[j].sid = inv[i].sid
         /\ inv[j].tool = "get_active_store"
         /\ inv[j].userId = inv[i].userId
         /\ inv[j].stage = "done" /\ ~inv[j].failed) =>
            /\ inv[j].result = "ok"
            /\ inv[j].report = inv[i].ident

\* Store resolution as the claim orders it: a store whose id is the
\* identifier, else one whose display name is, else the first whose display
\* name contains it, letter case ignored; << >> when there is none.
PriorityFind(stores, q) ==
    LET byId == {k \in 1..Len(stores) : toLowerCase(stores[k].id) = q}
        byName == {k \in 1..Len(stores) : toLowerCase(stores[k].displayName) = q}
        bySub == {k \in 1..Len(stores) : includes(toLowerCase(stores[k].displayName), q)}
        First(S) == stores[CHOOSE k \in S : \A m \in S : k <= m].id
    IN  IF byId # {} THEN First(byId)
        ELSE IF byName # {} THEN First(byName)
        ELSE IF bySub # {} THEN First(bySub)
        ELSE << >>

\* C18 as stated: the store a handler resolves for an identifier is the one
\* the priority order gives, and none when the priority order gives none.
C18_MatchPriority ==
    \A i \in DOMAIN inv :
        /\ inv[i].found # << >> =>
               inv[i].found = PriorityFind(OwnStores(inv[i].userId), toLowerCase(inv[i].ident))
        /\ (inv[i].result = "err:notfound" /\ ~inv[i].failed) =>
               PriorityFind(OwnStores(inv[i].userId), toLowerCase(inv[i].ident)) = << >>

\* C19 as stated: when set_active_store or delete_document has reported
\* success, the settings cache holds no entry of the tenant.
C19_MutationInvalidatesCache ==
    \A i \in DOMAIN inv :
        (/\ inv[i].tool \in {"set_active_store", "delete_document"}
         /\ inv[i].stage = "done"
         /\ inv[i].result = "ok") =>
            ~MapHas(settingsCache, inv[i].userId)

\* C20: the step in which set_active_store writes puts the id of the store
\* that findStoreByUser gives for the identifier among the tenant's own
\* stores into the tenant's pointer and into no other, and a set_active_store
\* that found no store answers "not found" in-band and has written nothing.
C20_CanonicalIdPersisted ==
    [][\A i \in DOMAIN inv :
          /\ (inv[i].stage = "patch" /\ inv'[i].stage = "done") =>
                LET own == OwnStores(inv[i].userId)
                    store == findStoreByUser(own, inv[i].ident)
                IN  /\ store.found
                    /\ inv'[i].result = "ok"
                    /\ \A t \in Tenants \ {inv[i].userId} : userSettings'[t] = userSettings[t]
                    /\ userSettings'[inv[i].userId] \in
                           {userSettings[inv[i].userId], own[store.index].id}
                    /\ inv'[i].wrote => userSettings'[inv[i].userId] = own[store.index].id
          /\ (inv[i].tool = "set_active_store" /\ inv[i].stage = "find"
              /\ inv'[i].stage = "done") =>
                /\ inv'[i].result = "err:notfound"
                /\ "patch" \notin inv'[i].ops
                /\ userSettings' = userSettings]_vars

\* set_active_store was given a display name and wrote the id of the store
\* it found, which is not what the caller gave.
C20_Witness ==
    \E i \in DOMAIN inv :
        /\ inv[i].tool = "set_active_store"
        /\ inv[i].ident = <<"A", "l">>
        /\ inv[i].wrote
        /\ userSettings[inv[i].userId] = inv[i].found
        /\ inv[i].found # inv[i].ident

\* The active store a handler step takes from the settings: the cached
\* value when the handler starts on an unexpired entry, else the value of the
\* backend row.
ActiveSeen(i) ==
    IF inv[i].stage = "dispatched"
    THEN settingsCache[inv'[i].userId].data.active_store_id
    ELSE userSettings[inv[i].userId]

AllHandles(t) == [k \in 1..Len(OwnStores(t)) |-> toStoreName(OwnStores(t)[k].id)]

\* C22: chat_all_stores makes at most one upstream call, which carries the
\* handles of all the stores of its tenant together, and has made that one
\* call whenever it answers with the upstream's text or error; for a tenant
\* without stores it ends with the in-band error and has made no upstream
\* call.
C22_OneCallAllStores ==
    \A i \in DOMAIN inv :
        (inv[i].tool = "chat_all_stores" /\ inv[i].userId # Null) =>
            /\ Len(inv[i].calls) <= 1
            /\ inv[i].calls # << >> =>
                   /\ inv[i].calls[1] = AllHandles(inv[i].userId)
                   /\ Len(inv[i].calls[1]) >= 1
            /\ (inv[i].stage = "done" /\ inv[i].result \in {"ok", "err:upstream"}) =>
                   Len(inv[i].calls) = 1
            /\ (OwnStores(inv[i].userId) = << >> /\ inv[i].stage \notin {"dispatched", "stores"}) =>
                   /\ inv[i].stage = "done"
                   /\ inv[i].result = "err:nostores"
            /\ inv[i].result = "err:nostores" =>
                   /\ inv[i].calls = << >>
                   /\ ~inv[i].upstream
                   /\ "rag" \notin inv[i].ops

\* chat_all_stores of the tenant with two stores answered after one upstream
\* call that carried both handles.
C22_Witness ==
    \E i \in DOMAIN inv :
        /\ inv[i].tool = "chat_all_stores"
        /\ inv[i].stage = "done"
        /\ inv[i].result = "ok"
        /\ Len(inv[i].calls) = 1
        /\ Len(inv[i].calls[1]) = 2

\* The record of the document that delete_document was asked to delete, owned
\* by the tenant in the store the handler settled on, exists.
OwnRecord(i) ==
    \E k \in 1..Len(DocsTable) :
        /\ DocsTable[k].id = inv[i].args.documentId
        /\ DocsTable[k].user_id = inv[i].userId
        /\ DocsTable[k].store_id = inv[i].ident

\* C23 as stated: delete_document reports success when the upstream deletion
\* ended with "not found" as it does when it succeeded; without a record of
\* the document owned by the tenant in the store it ends with an in-band
\* failure and has attempted no upstream deletion; after any other upstream
\* failure it ends with an in-band error.
C23_DeleteOutcomes ==
    \A i \in DOMAIN inv :
        (inv[i].tool = "delete_document" /\ inv[i].userId # Null) =>
            /\ (inv[i].stage = "done" /\ inv[i].gstatus \in {"200", "404"}) =>
                   inv[i].result = "ok"
            /\ "gdelete" \in inv[i].ops => OwnRecord(i)
            /\ (inv[i].stage = "done" /\ "docs" \in inv[i].ops /\ ~OwnRecord(i)) =>
                   /\ inv[i].result = "err:docnotfound"
                   /\ inv[i].gstatus = "none"
            /\ (inv[i].stage # "gdelete" /\ inv[i].gstatus \notin {"none", "200", "404"}) =>
                   /\ inv[i].stage = "done"
                   /\ inv[i].result = "err:upstream"

\* The source identifier of a chunk: the uri of its page or of its document,
\* << >> when it has none.
SourceId(c) == IF c.web.uri # << >> THEN c.web.uri ELSE c.retrievedContext.uri

\* The line that lists the source of a chunk.
LineOf(c) == IF c.web.uri # << >> THEN WebLine(c.web) ELSE DocLine(c.retrievedContext)

\* The places of a list of chunks where a source identifier occurs first.
FirstOccurrences(chunks) ==
    {k \in 1..Len(chunks) :
        /\ SourceId(chunks[k]) # << >>
        /\ \A j \in 1..(k - 1) : SourceId(chunks[j]) # SourceId(chunks[k])}

\* C24: under the heading, the Sources block of an answer holds one line for
\* every distinct source identifier of the grounding chunks and no other
\* line, and its n-th line lists the identifier whose first occurrence is
\* the n-th.
C24_SourcesListedOnce ==
    \A i \in DOMAIN inv :
        (inv[i].result = "ok" /\ inv[i].chunks # << >>) =>
            LET chunks == inv[i].chunks
                lines == Tail(inv[i].sources)
                firsts == FirstOccurrences(chunks)
                nth(n) == CHOOSE k \in firsts : Cardinality({j \in firsts : j <= k}) = n
            IN  /\ Len(lines) = Cardinality(firsts)
                /\ \A n \in 1..Len(lines) :
                       \E m \in 1..Len(chunks) :
                           /\ SourceId(chunks[m]) = SourceId(chunks[nth(n)])
                           /\ lines[n] = LineOf(chunks[m])

\* An answer came with three chunks, two of them of one source, and its
\* Sources block holds the heading and two lines.
C24_Witness ==
    \E i \in DOMAIN inv :
        /\ inv[i].result = "ok"
        /\ Len(inv[i].chunks) = 3
        /\ Cardinality(FirstOccurrences(inv[i].chunks)) = 2
        /\ SourceId(inv[i].chunks[1]) = SourceId(inv[i].chunks[3])
        /\ Len(inv[i].sources) = 3

\* C25: a request to the status or to the log-clear endpoint that carries no
\* token, or a token that does not resolve as valid, is answered 401 or 403
\* with no session, history or log data, and every entry the log held when
\* the request came in is still in it afterwards.
C25_ProtectedEndpoints ==
    (/\ probe.stage # "unused"
     /\ \/ probe.stage = "resolving"
        \/ probe.token = NoToken
        \/ ~probe.resolved.valid) =>
        /\ probe.body = NoBody
        /\ probe.before \subseteq mcpLogs
        /\ mcpLogs # {}
        /\ probe.stage = "done" =>
               probe.status = IF probe.token = NoToken THEN "r401" ELSE "r403"

\* The log-clear endpoint answered 403 to a token that is no key, and the
\* log still holds the entry of a session established before.
C25_Witness ==
    /\ probe.stage = "done"
    /\ probe.path = "/api/mcp-logs/clear"
    /\ probe.token = Jwt
    /\ probe.status = "r403"
    /\ \E e \in probe.before : e.msg = "Session established"
    /\ \E e \in mcpLogs : e.msg = "Session established"

\* The stream of the session sid has closed.
StreamGone(sid) ==
    /\ sid # 0
    /\ \A c \in ConnIds : conn[c].sid = sid => conn[c].closedIn # "open"

\* C26: a step of a handler that waits for the data layer or the upstream
\* while the stream of its session is closed goes on as it would otherwise:
\* it raises no error, keeps its tenant, leaves the session map, the streams
\* and the history as they are, and the result it ends with is written to no
\* session.
C26_InFlightCompletes ==
    [][\A i \in DOMAIN inv :
          (/\ InHandler(i)
           /\ inv[i].stage # "done"
           /\ StreamGone(inv[i].sid)
           /\ inv'[i] # inv[i]) =>
              /\ inv'[i].stage # "error"
              /\ inv'[i].userId = inv[i].userId
              /\ sessions' = sessions
              /\ conn' = conn
              /\ sessionHistory' = sessionHistory
              /\ inv'[i].stage = "done" => inv'[i].delivered = 0]_vars

\* A chat whose session closed while it was under way got the answer of the
\* upstream; the answer went to no session, the closed session is not in the
\* map and the session of the other stream is.
C26_Witness ==
    \E i \in DOMAIN inv, c, d \in ConnIds :
        /\ inv[i].stage = "done"
        /\ inv[i].result = "ok"
        /\ inv[i].upstream
        /\ inv[i].delivered = 0
        /\ conn[c].sid = inv[i].sid
        /\ conn[c].closedIn = "established"
        /\ ~MapHas(sessions, inv[i].sid)
        /\ d # c
        /\ conn[d].stage = "established"
        /\ conn[d].closedIn = "open"
        /\ MapHas(sessions, conn[d].sid)

\* C27: every tools/list answer, on whatever session and whatever the gateway
\* has seen by then, is the registry as it was built when the module loaded:
\* one {name, description, argument schema} per tool, names unique, in the
\* order of registration. The cached listing, once built, is that list, and
\* only the first tools/list request writes it: no stream request, tool call
\* or close does.
ListedNames(l) == [k \in 1..Len(l) |-> l[k].name]

C27_ListingIsRegistry ==
    /\ [](/\ \A k \in 1..Len(listings) :
               /\ listings[k].tools = ToolSchemas(tools)
               /\ ListedNames(listings[k].tools) = ToolOrder
               /\ \A a, b \in 1..Len(listings[k].tools) :
                      listings[k].tools[a].name = listings[k].tools[b].name => a = b
           /\ cachedToolSchemas.built => cachedToolSchemas.list = ToolSchemas(tools))
    /\ [][cachedToolSchemas' # cachedToolSchemas
            => /\ cachedToolSchemas = NotCached
               /\ Len(listings') = Len(listings) + 1]_vars

\* Two answers on two sessions: the first before anything had closed or
\* finished, the second after a stream had closed and a tool call finished.
C27_Witness ==
    /\ Len(listings) = 2
    /\ listings[1].sid # listings[2].sid
    /\ listings[1].closed = {} /\ listings[1].finished = {}
    /\ listings[2].closed # {} /\ listings[2].finished # {}
    /\ listings[1].tools = listings[2].tools

\* C28: the session history never holds more than MAX_SESSION_HISTORY
\* records and its records stand newest-closed first; a close that writes a
\* record puts it at the head and leaves the others in their order, and at
\* capacity the record that goes is the last one, the oldest. A close that
\* the transport's listener handles with the session still in the map writes
\* its record, at capacity too.
HistoryIds(h) == {h[k].sessionId : k \in 1..Len(h)}

C28_HistoryBounded ==
    /\ [](/\ Len(sessionHistory) <= MAX_SESSION_HISTORY
           /\ \A k \in 1..(Len(sessionHistory) - 1) :
                  sessionHistory[k].closedAt >= sessionHistory[k + 1].closedAt)
    /\ [][sessionHistory' # sessionHistory
            => /\ Len(sessionHistory') >= 1
               /\ sessionHistory'[1].sessionId \notin HistoryIds(sessionHistory)
               /\ sessionHistory'[1].closedAt = now
               /\ Tail(sessionHistory') =
                      IF Len(sessionHistory) = MAX_SESSION_HISTORY
                      THEN SubSeq(sessionHistory, 1, MAX_SESSION_HISTORY - 1)
                      ELSE sessionHistory]_vars
    /\ [][\A c \in ConnIds :
              (/\ conn[c].stage = "established" /\ MapHas(sessions, conn[c].sid)
               /\ ~Closed(c) /\ conn'[c].closedIn # "open"
               /\ LogEntry("Session force-closed", conn[c].sid, Null) \notin mcpLogs')
              => /\ Len(sessionHistory') >= 1
                 /\ sessionHistory'[1].sessionId = conn[c].sid]_vars

\* The history is full, two more sessions have closed after MAX_SESSION_HISTORY
\* - 1 earlier ones, and the record of the very first session is gone.
C28_Witness ==
    /\ Len(sessionHistory) = MAX_SESSION_HISTORY
    /\ nextSid >= MAX_SESSION_HISTORY + 2
    /\ Cardinality({k \in 1..Len(sessionHistory) :
                       sessionHistory[k].sessionId > MAX_SESSION_HISTORY - 1}) = 2
    /\ 1 \notin HistoryIds(sessionHistory)
    /\ 2 \in HistoryIds(sessionHistory)

\* C29: no answer of the status endpoint to a caller whose key resolves to
\* tenant B holds, among its sessions or in its log, the sessionId of a session
\* of another tenant that is live when the answer is given.
LiveForeign(body, t) == {s.sessionId : s \in {x \in body.sessions : x.userId # t}}

Exposed(body) ==
    ({s.sessionId : s \in body.sessions} \cup {e.sid : e \in body.logs}) \ {0}

C29_NoForeignSessionId ==
    (/\ probe.stage = "done" /\ probe.status = "r200"
     /\ probe.token = KeyB /\ probe.resolved.userId = KeyOwner(KeyB)) =>
        Exposed(probe.body) \cap LiveForeign(probe.body, KeyOwner(KeyB)) = {}

\* C30: once a set_active_store of a tenant has written the pointer and
\* answered success, and that write is the last one, an unexpired entry of the
\* tenant in the settings cache holds the new active store, whatever other
\* calls of the tenant were under way meanwhile (no read or write having
\* failed).
C30_NoStaleRecache ==
    \A i \in DOMAIN inv :
        (/\ inv[i].tool = "set_active_store"
         /\ inv[i].stage = "done" /\ inv[i].result = "ok" /\ inv[i].wrote
         /\ userSettings[inv[i].userId] = inv[i].found
         /\ \A j \in DOMAIN inv : ~inv[j].failed
         /\ SettingsHit(inv[i].userId)) =>
            settingsCache[inv[i].userId].data.active_store_id = userSettings[inv[i].userId]

\* C31: the activity log never holds the key of a tenant, and so no answer of
\* the status endpoint shows one, whichever way the requests carried their
\* credentials and whether they were let through or rejected.
C31_NoCredentialInLog ==
    /\ \A e \in mcpLogs : e.query \notin KeyRows
    /\ probe.status = "r200" => \A e \in probe.body.logs : e.query \notin KeyRows

\* C32: every entry of the live session map belongs to a stream request that
\* auth let through, holds the tenant resolveUser returned for it, and has a
\* transport whose connect completed; a stream request whose connect failed
\* has no entry in the map.
C32_LiveEntriesConnected ==
    /\ \A sid \in DOMAIN sessions :
          LET c == sessions[sid].conn
          IN  /\ conn[c].sid = sid
              /\ conn[c].resolved.valid
              /\ sessions[sid].userId = conn[c].resolved.userId
              /\ conn[c].stage = "established"
    /\ \A c \in ConnIds : conn[c].stage = "failed" => ~MapHas(sessions, conn[c].sid)

\* C33: the step in which set_active_store hears from the backend ends with
\* the success message only when the backend took the update; when it did not,
\* the step ends with an in-band error and leaves the pointer as it was.
C33_SuccessOnlyIfWritten ==
    [][\A i \in DOMAIN inv :
          (inv[i].stage = "patch" /\ inv'[i].stage # "patch") =>
              /\ inv'[i].stage = "done"
              /\ inv'[i].result = "ok" => inv'[i].wrote
              /\ ~inv'[i].wrote =>
                     /\ inv'[i].result # "ok"
                     /\ userSettings' = userSettings]_vars

\* C34: when delete_document has answered success for a document of a tenant
\* and the backend has taken its update, a list_documents of the tenant posted
\* after that, with its reads succeeding, does not list the document, and a
\* delete_document of the same document posted after that answers in-band
\* that the document was not found.
Listed(j) == {inv[j].docs[k] : k \in 1..Len(inv[j].docs)}

C34_DeletedStaysDeleted ==
    \A i, j \in DOMAIN inv :
        (/\ inv[i].tool = "delete_document"
         /\ inv[i].stage = "done" /\ inv[i].result = "ok" /\ inv[i].wrote
         /\ inv[i].args.documentId \in docsDeletedAt
         /\ i \in inv[j].prior
         /\ inv[j].userId = inv[i].userId
         /\ inv[j].stage = "done" /\ ~inv[j].failed) =>
            /\ inv[j].tool = "list_documents" => inv[i].args.documentId \notin Listed(j)
            /\ (inv[j].tool = "delete_document"
                /\ inv[j].args.documentId = inv[i].args.documentId) =>
                   inv[j].result = "err:docnotfound"

\* C35: a settings read of a handler that fails at the backend leaves the
\* settings cache as it was, so that the tenant has no unexpired entry made of
\* the failure and the next settings read goes to the backend.
C35_FailedReadNotCached ==
    [][\A i \in DOMAIN inv :
          (/\ inv[i].stage = "settings" /\ inv'[i].stage # "settings"
           /\ ~inv[i].failed /\ inv'[i].failed) =>
              /\ settingsCache' = settingsCache
              /\ ~SettingsHit(inv[i].userId)']_vars

\* C37: when resolveUser returns for a token whose cache entry it found
\* expired, the cache holds an unexpired entry of the token or none at all.
C37_ExpiredEntryEvicted ==
    [][\A c \in ConnIds :
          (/\ conn[c].stage = "resolving" /\ conn'[c].stage # "resolving"
           /\ conn[c].cached = "expired") =>
              \/ ~MapHas(authCache', conn[c].token)
              \/ authCache'[conn[c].token].expiresAt > now']_vars

C36_TouchNeverBlocksOrFails ==
    /\ [][\A p \in keyTouches' \ keyTouches :
            /\ p \in keyTouches'
            /\ p.by # 0 =>
                   /\ conn'[p.by].resolved =
                          [pending |-> FALSE, userId |-> KeyOwner(p.key), valid |-> TRUE]
                   /\ conn'[p.by].stage \in {"established", "failed"}
                   /\ MapHas(sessions', conn'[p.by].sid)
            /\ p.by = 0 => probe'.resolved.valid /\ probe'.status = "r200"]_vars
    /\ [][keyTouches' # keyTouches /\ keyTouches' \subseteq keyTouches =>
            /\ conn' = conn
            /\ probe' = probe
            /\ sessions' = sessions
            /\ authCache' = authCache]_vars

\* A stream whose update of last_used_at threw is established, its session in
\* the live map, while the update of another stream is still under way.
C36_Witness ==
    \E c, d \in ConnIds :
        /\ conn[c].stage = "established" /\ MapHas(sessions, conn[c].sid)
        /\ conn[c].cached # "fresh"
        /\ \A p \in keyTouches : p.by # c
        /\ keyLastUsed[conn[c].token] = << >>
        /\ \E e \in mcpLogs : e.msg = "sbPatch error"
        /\ conn[d].stage = "established"
        /\ \E p \in keyTouches : p.by = d

====
